---- MODULE Spec2Model ----
(***************************************************************************)
(* A model of the mettagrid simulation core: the GridObject tag lifecycle  *)
(* and TagIndex, the QuerySystem's materialized query tags, the AOE        *)
(* tracker, the reward helper, the observation encoders and the engine     *)
(* tick.  Each subsystem keeps its state in one record-valued variable and *)
(* has its own specification; operators are translated from the C++        *)
(* sources and keep their names.                                           *)
(***************************************************************************)
EXTENDS Integers, Sequences, FiniteSets, TLC

VARIABLES
  tw,      \* tag world: tag bits, TagIndex lists and counts, inventories
  th,      \* tag history: the last call and the snapshot before an add_tag
  qw,      \* query world: tags, TagIndex, rng state and the query's config
  qh,      \* query history: what the last recompute removed, kept and added
  aw,      \* AOE world: agents, sources, inside sets and inventories
  sw,      \* engine tick world: step counter, rewards, terminals
  ow,      \* observation world: the two encoders' buffers and counters
  dw,      \* two engine instances stepped with the same inputs
  hw       \* handler world: tags, inventories and the log of the last dispatch

vars == <<tw, th, qw, qh, aw, sw, ow, dw, hw>>

tagVars == <<tw, th>>

queryVars == <<qw, qh>>

notTagVars == <<qw, qh, aw, sw, ow, dw, hw>>

notQueryVars == <<tw, th, aw, sw, ow, dw, hw>>

notAoeVars == <<tw, th, qw, qh, sw, ow, dw, hw>>

notStepVars == <<tw, th, qw, qh, aw, ow, dw, hw>>

notObsVars == <<tw, th, qw, qh, aw, sw, dw, hw>>

notDetVars == <<tw, th, qw, qh, aw, sw, ow, hw>>

notHandlerVars == <<tw, th, qw, qh, aw, sw, ow, dw>>

(***************************************************************************)
(* Small helpers on sequences and sets.                                    *)
(***************************************************************************)
Range(s) == {s[i] : i \in 1..Len(s)}

Min2(a, b) == IF a < b THEN a ELSE b

Max2(a, b) == IF a > b THEN a ELSE b

\* std::find + erase of the first occurrence of x in s
RemoveFirst(s, x) ==
  IF x \notin Range(s) THEN s
  ELSE LET i == CHOOSE k \in 1..Len(s) : s[k] = x /\ \A j \in 1..(k-1) : s[j] # x
       IN  SubSeq(s, 1, i-1) \o SubSeq(s, i+1, Len(s))

(***************************************************************************)
(* Bounds of the tag model.                                                *)
(***************************************************************************)
NumObjs == 2

NumTags == 2

InvLimit == 3

\* objects of the query model, standing in a row: object o at column o
NumQObjs == 3

\* period of the modelled random generator
RngPeriod == 2

\* largest max_items of the materialized query (0 = unlimited)
MaxItems == 1

QObjs == 1..NumQObjs

\* tag ids of the query model: the seed tag, the candidates' tag and the
\* materialized tag the query computes
SeedTag == 0

TeamTag == 1

ConnTag == 2

QTags == {SeedTag, TeamTag, ConnTag}

Objs == 1..NumObjs

Tags == 0..(NumTags - 1)

\* GridObject's tag bitset width: tag ids outside 0..kMaxTags-1 are ignored
kMaxTags == 256

\* the tag ids handed to add_tag / remove_tag: the modelled tags and two
\* ids outside the bitset
TagInputs == Tags \cup {-1, kMaxTags}

(***************************************************************************)
(* Inventory::update: the amount after adding delta, clamped to 0..limit.  *)
(***************************************************************************)
Inventory_update(amount, delta, limit) ==
  Max2(0, Min2(amount + delta, limit))

(***************************************************************************)
(* TagIndex: per tag a list of objects and a float count.                  *)
(***************************************************************************)
on_tag_added(W, o, t) ==
  [W EXCEPT !.objects[t] = Append(@, o), !.counts[t] = @ + 1]

on_tag_removed(W, o, t) ==
  IF o \in Range(W.objects[t])
  THEN [W EXCEPT !.objects[t] = RemoveFirst(@, o), !.counts[t] = @ - 1]
  ELSE W

get_objects_with_tag(W, t) == W.objects[t]

count_objects_with_tag(W, t) == Len(W.objects[t])

\* the float behind get_count_ptr(t)
count_ptr_value(W, t) == W.counts[t]

(***************************************************************************)
(* Lifecycle handler configuration of the tag model (the handlers of       *)
(* test_tag_lifecycle.cpp, scaled): object 1 carries handlers, the other   *)
(* objects carry none.  on_tag_add[0] adds a resource and cascades to tag  *)
(* 1; on_tag_add of any other tag adds a resource; on_tag_remove removes   *)
(* a smaller amount.                                                       *)
(***************************************************************************)
DeltaMut(e, r, d) ==
  [kind |-> "ResourceDelta", entity |-> e, resource_id |-> r, delta |-> d, tag_id |-> -1]

AddTagMut(e, t) ==
  [kind |-> "AddTag", entity |-> e, resource_id |-> -1, delta |-> 0, tag_id |-> t]

RemoveTagMut(e, t) ==
  [kind |-> "RemoveTag", entity |-> e, resource_id |-> -1, delta |-> 0, tag_id |-> t]

TagHandler(ms) == [mutations |-> ms]

\* The objects of the AOE model carry no lifecycle handler.
\* In the query model every object carries one on_tag_add and one
\* on_tag_remove handler for the materialized tag: with hcfg "log" they have
\* no mutation, with hcfg "cascade" the on_tag_remove handler also removes
\* the candidates' tag from the object.
on_tag_add_cfg(W, o, t) ==
  CASE W.hcfg = "lifecycle_test" ->
         IF o # 1 THEN <<>>
         ELSE IF t = 0 /\ 1 \in Tags
              THEN << TagHandler(<< DeltaMut("actor", 0, 2), AddTagMut("target", 1) >>) >>
              ELSE << TagHandler(<< DeltaMut("actor", 0, 2) >>) >>
    [] W.hcfg = "aoe" -> <<>>
    [] OTHER ->
         IF t = ConnTag THEN << TagHandler(<<>>) >> ELSE <<>>

on_tag_remove_cfg(W, o, t) ==
  CASE W.hcfg = "lifecycle_test" ->
         IF o # 1 THEN <<>> ELSE << TagHandler(<< DeltaMut("actor", 0, -1) >>) >>
    [] W.hcfg = "aoe" -> <<>>
    [] W.hcfg = "cascade" ->
         IF t = ConnTag THEN << TagHandler(<< RemoveTagMut("target", TeamTag) >>) >>
         ELSE <<>>
    [] OTHER ->
         IF t = ConnTag THEN << TagHandler(<<>>) >> ELSE <<>>

(***************************************************************************)
(* HandlerContext and make_tag_handler_ctx.                                *)
(***************************************************************************)
\* A context names its actor and target (0 is the null pointer) and says
\* which of its pointers are set: the TagIndex, the game stats, the grid, the
\* collectives, the QuerySystem, the random generator and the deferred
\* resource-delta accumulator.  The contexts of the tag model carry the
\* TagIndex; sys says whether they carry the engine's other pointers.
TagCtx(o, skip, sys) ==
  [actor |-> o, target |-> o, has_tag_index |-> TRUE,
   skip_on_update_trigger |-> skip, rng |-> sys, deferred |-> FALSE,
   game_stats |-> sys, grid |-> sys, collectives |-> sys, query_system |-> sys]

\* a default-constructed HandlerContext
NullCtx ==
  [actor |-> 0, target |-> 0, has_tag_index |-> FALSE,
   skip_on_update_trigger |-> FALSE, rng |-> FALSE, deferred |-> FALSE,
   game_stats |-> FALSE, grid |-> FALSE, collectives |-> FALSE, query_system |-> FALSE]

make_tag_handler_ctx(o, ctx) ==
  [NullCtx EXCEPT !.actor = o, !.target = o,
                  !.game_stats = ctx.game_stats,
                  !.has_tag_index = ctx.has_tag_index,
                  !.grid = ctx.grid,
                  !.collectives = ctx.collectives,
                  !.query_system = ctx.query_system,
                  !.skip_on_update_trigger = FALSE]

resolve(ctx, e) == IF e = "actor" THEN ctx.actor ELSE ctx.target

(***************************************************************************)
(* Inventory updates.  The amount is clamped; an agent's inventory reports *)
(* the change to Agent::on_inventory_change, which keeps the gained and    *)
(* lost stats.  Whether the inventory reports the delta it was asked for   *)
(* or the delta that survived the clamp is a parameter of the world.       *)
(***************************************************************************)
on_inventory_change(W, e, item, delta) ==
  IF delta > 0 THEN [W EXCEPT !.gained[e][item] = @ + delta]
  ELSE IF delta < 0 THEN [W EXCEPT !.lost[e][item] = @ - delta]
  ELSE W

\* a world that keeps the list of its inventory updates records the call
Updated(W, e, item, delta) ==
  IF "updates" \in DOMAIN W
  THEN [W EXCEPT !.updates = Append(@, <<e, item, delta>>)]
  ELSE W

inventory_update(W, e, item, delta) ==
  LET amount == W.inv[e][item]
      new_amount == Inventory_update(amount, delta, W.limits[item])
      W1 == [Updated(W, e, item, delta) EXCEPT !.inv[e][item] = new_amount]
  IN  IF "gained" \in DOMAIN W
      THEN on_inventory_change(W1, e, item,
             IF W.report = "clamped" THEN new_amount - amount ELSE delta)
      ELSE W1

is_modifier(W, item) == item \in W.modifiers

ResourceDeltaMutation_immediate(W, m, ctx) ==
  inventory_update(W, resolve(ctx, m.entity), m.resource_id, m.delta)

\* variant of ResourceDeltaMutation::apply that also defers modifier items
ResourceDeltaMutation_defers_modifiers(W, m, ctx) ==
  IF ctx.deferred /\ m.entity = "target" /\ ctx.target # 0
  THEN [W EXCEPT
          !.deferred_order = IF m.resource_id \in Range(@) THEN @
                             ELSE Append(@, m.resource_id),
          !.deferred_deltas[m.resource_id] = @ + m.delta]
  ELSE inventory_update(W, resolve(ctx, m.entity), m.resource_id, m.delta)

\* ResourceDeltaMutation::apply
ResourceDeltaMutation_apply(W, m, ctx) ==
  IF ctx.deferred /\ m.entity = "target" /\ ctx.target # 0
     /\ ~is_modifier(W, m.resource_id)
  THEN [W EXCEPT
          !.deferred_order = IF m.resource_id \in Range(@) THEN @
                             ELSE Append(@, m.resource_id),
          !.deferred_deltas[m.resource_id] = @ + m.delta]
  ELSE inventory_update(W, resolve(ctx, m.entity), m.resource_id, m.delta)

(***************************************************************************)
(* GridObject::add_tag / remove_tag with a HandlerContext, the lifecycle   *)
(* handler dispatch, and the mutations a lifecycle handler may hold.       *)
(***************************************************************************)
RECURSIVE add_tag(_, _, _, _)
RECURSIVE remove_tag(_, _, _, _)
RECURSIVE ApplyMutations(_, _, _, _)
RECURSIVE ApplyHandlers(_, _, _, _, _)

\* Handler::try_apply for a handler without filters: every mutation, in order
ApplyMutations(W, ms, i, ctx) ==
  IF i > Len(ms) THEN W
  ELSE LET m == ms[i]
           e == resolve(ctx, m.entity)
           W1 == CASE m.kind = "ResourceDelta" -> ResourceDeltaMutation_apply(W, m, ctx)
                   [] m.kind = "AddTag" ->
                        IF e = 0 THEN W ELSE add_tag(W, e, m.tag_id, ctx)
                   [] m.kind = "RemoveTag" ->
                        IF e = 0 THEN W ELSE remove_tag(W, e, m.tag_id, ctx)
       IN  ApplyMutations(W1, ms, i + 1, ctx)

\* for (auto& handler : it->second) handler->try_apply(handler_ctx); the
\* world logs which handler ran and, in the tag model, the context it got
ApplyHandlers(W, hs, i, kind, ctx) ==
  IF i > Len(hs) THEN W
  ELSE LET Wf == [W EXCEPT !.fired = Append(@, <<kind, ctx.actor>>)]
           W0 == IF "handler_ctxs" \in DOMAIN W
                 THEN [Wf EXCEPT !.handler_ctxs = Append(@, ctx)] ELSE Wf
           W1 == ApplyMutations(W0, hs[i].mutations, 1, ctx)
       IN  ApplyHandlers(W1, hs, i + 1, kind, ctx)

add_tag_skips_index(W, o, t, ctx) ==
  IF t < 0 \/ t >= kMaxTags THEN W
  ELSE IF t \in W.bits[o] THEN W
  ELSE LET W1 == [W EXCEPT !.bits[o] = @ \cup {t}]
       IN  IF ~ctx.has_tag_index \/ ctx.skip_on_update_trigger THEN W1
           ELSE ApplyHandlers(on_tag_added(W1, o, t), on_tag_add_cfg(W, o, t), 1,
                              <<"add", t>>, make_tag_handler_ctx(o, ctx))

\* variant of add_tag without the early return for a tag already present
add_tag_without_present_check(W, o, t, ctx) ==
  IF t < 0 \/ t >= kMaxTags THEN W
  ELSE LET W1 == [W EXCEPT !.bits[o] = @ \cup {t}]
       IN  IF ~ctx.has_tag_index THEN W1
           ELSE LET W2 == IF t \in W.bits[o] THEN W1 ELSE on_tag_added(W1, o, t)
                IN  IF ctx.skip_on_update_trigger THEN W2
                    ELSE ApplyHandlers(W2, on_tag_add_cfg(W, o, t), 1, <<"add", t>>,
                                       make_tag_handler_ctx(o, ctx))

\* variant of add_tag that does not read skip_on_update_trigger
add_tag_ignores_skip(W, o, t, ctx) ==
  IF t < 0 \/ t >= kMaxTags THEN W
  ELSE IF t \in W.bits[o] THEN W
  ELSE LET W1 == [W EXCEPT !.bits[o] = @ \cup {t}]
       IN  IF ~ctx.has_tag_index THEN W1
           ELSE ApplyHandlers(on_tag_added(W1, o, t), on_tag_add_cfg(W, o, t), 1, <<"add", t>>,
                              make_tag_handler_ctx(o, ctx))

add_tag(W, o, t, ctx) ==
  IF t < 0 \/ t >= kMaxTags THEN W
  ELSE IF t \in W.bits[o] THEN W
  ELSE LET W1 == [W EXCEPT !.bits[o] = @ \cup {t}]
       IN  IF ~ctx.has_tag_index THEN W1
           ELSE LET W2 == on_tag_added(W1, o, t)
                IN  IF ctx.skip_on_update_trigger THEN W2
                    ELSE ApplyHandlers(W2, on_tag_add_cfg(W, o, t), 1, <<"add", t>>,
                                       make_tag_handler_ctx(o, ctx))

remove_tag_keeps_index(W, o, t, ctx) ==
  IF t < 0 \/ t >= kMaxTags THEN W
  ELSE IF t \notin W.bits[o] THEN W
  ELSE LET W1 == [W EXCEPT !.bits[o] = @ \ {t}]
       IN  IF ~ctx.has_tag_index \/ ctx.skip_on_update_trigger THEN W1
           ELSE ApplyHandlers(W1, on_tag_remove_cfg(W, o, t), 1, <<"remove", t>>,
                              make_tag_handler_ctx(o, ctx))

remove_tag(W, o, t, ctx) ==
  IF t < 0 \/ t >= kMaxTags THEN W
  ELSE IF t \notin W.bits[o] THEN W
  ELSE LET W1 == [W EXCEPT !.bits[o] = @ \ {t}]
       IN  IF ~ctx.has_tag_index THEN W1
           ELSE LET W2 == on_tag_removed(W1, o, t)
                IN  IF ctx.skip_on_update_trigger THEN W2
                    ELSE ApplyHandlers(W2, on_tag_remove_cfg(W, o, t), 1, <<"remove", t>>,
                                       make_tag_handler_ctx(o, ctx))

(***************************************************************************)
(* The tag lifecycle as a state machine: any sequence of add_tag /         *)
(* remove_tag calls with a context that carries the TagIndex.              *)
(***************************************************************************)
TagWorld0 ==
  [bits |-> [o \in Objs |-> {}],
   objects |-> [t \in Tags |-> <<>>],
   counts |-> [t \in Tags |-> 0],
   inv |-> [o \in Objs |-> [item \in {0} |-> 1]],
   limits |-> [item \in {0} |-> InvLimit],
   fired |-> <<>>,
   handler_ctxs |-> <<>>,
   hcfg |-> "lifecycle_test"]

Snapshot(W) == [bits |-> W.bits, objects |-> W.objects, counts |-> W.counts, inv |-> W.inv]

\* the last call: its kind, object, tag and context, and the state before it
NoCall ==
  [call |-> "none", o |-> 0, t |-> -1, ctx |-> NullCtx, before |-> Snapshot(TagWorld0)]

LastCall(call, o, t, ctx, W) ==
  [call |-> call, o |-> o, t |-> t, ctx |-> ctx, before |-> Snapshot(W)]

NoHist ==
  [phase |-> "none", o |-> 0, t |-> -1, add_fired |-> FALSE, pre |-> Snapshot(TagWorld0),
   last |-> NoCall]

TagInit ==
  /\ tw = TagWorld0
  /\ th = NoHist
  /\ qw = "idle" /\ qh = "idle" /\ aw = "idle"
  /\ sw = "idle" /\ ow = "idle" /\ dw = "idle"
  /\ hw = "idle"

\* obj.add_tag(t, ctx)
AddTag(o, t, skip, sys) ==
  /\ tw' = add_tag([tw EXCEPT !.fired = <<>>, !.handler_ctxs = <<>>], o, t, TagCtx(o, skip, sys))
  /\ th' = IF t \in Tags /\ t \notin tw.bits[o]
           THEN [phase |-> "added", o |-> o, t |-> t,
                 add_fired |-> (tw'.fired # <<>>), pre |-> Snapshot(tw),
                 last |-> LastCall("add", o, t, TagCtx(o, skip, sys), tw)]
           ELSE [NoHist EXCEPT !.last = LastCall("add", o, t, TagCtx(o, skip, sys), tw)]
  /\ UNCHANGED notTagVars

\* obj.remove_tag(t, ctx)
RemoveTag(o, t, skip, sys) ==
  /\ tw' = remove_tag([tw EXCEPT !.fired = <<>>, !.handler_ctxs = <<>>], o, t, TagCtx(o, skip, sys))
  /\ th' = IF th.phase = "added" /\ th.o = o /\ th.t = t
           THEN [th EXCEPT !.phase = "roundtrip",
                           !.last = LastCall("remove", o, t, TagCtx(o, skip, sys), tw)]
           ELSE [NoHist EXCEPT !.last = LastCall("remove", o, t, TagCtx(o, skip, sys), tw)]
  /\ UNCHANGED notTagVars

TagNext ==
  \E o \in Objs, t \in TagInputs, skip \in BOOLEAN, sys \in BOOLEAN :
    \/ AddTag(o, t, skip, sys)
    \/ RemoveTag(o, t, skip, sys)

SpecTag == TagInit /\ [][TagNext]_vars

HoldersOf(W, t) == {o \in Objs : t \in W.bits[o]}

\* C1: after any sequence of add_tag / remove_tag calls whose context carries
\* the TagIndex, an object has tag bit t iff it is in the TagIndex list of t
\* (once), count_objects_with_tag(t) is the number of holders, and the float
\* behind get_count_ptr(t) is the same number.
C1_TagIndexMirrorsBits ==
  \A t \in Tags :
    /\ \A o \in Objs : (t \in tw.bits[o]) <=> (o \in Range(get_objects_with_tag(tw, t)))
    /\ count_objects_with_tag(tw, t) = Cardinality(HoldersOf(tw, t))
    /\ count_ptr_value(tw, t) = Cardinality(HoldersOf(tw, t))

\* a tag held by two objects right after a remove_tag that undid an add_tag
C1_Witness ==
  /\ th.phase = "roundtrip"
  /\ \E t \in Tags : Len(tw.objects[t]) = 2 /\ count_ptr_value(tw, t) = 2

\* C10 as stated: add_tag(t) then remove_tag(t) on an object that did not hold
\* t returns tag bits, inventory and the TagIndex to the state before the add.
C10_RoundTripRestoresAll ==
  th.phase = "roundtrip" => Snapshot(tw) = th.pre

\* C10 amended: the round trip restores the object's bit t and the TagIndex
\* list and count of t; the whole state (inventory, other tags) is restored
\* when no lifecycle handler ran in either call.
C10_RoundTripRestoresTag ==
  th.phase = "roundtrip" =>
    /\ th.t \notin tw.bits[th.o]
    /\ tw.objects[th.t] = th.pre.objects[th.t]
    /\ tw.counts[th.t] = th.pre.counts[th.t]
    /\ (~th.add_fired /\ tw.fired = <<>>) => Snapshot(tw) = th.pre

\* a round trip on the object that carries handlers, run with handlers
\* enabled, and one on which no handler ran while other tags are held
C10_Witness ==
  /\ th.phase = "roundtrip"
  /\ ~th.add_fired /\ tw.fired = <<>>
  /\ \E t \in Tags : tw.objects[t] # <<>>
  /\ tw.inv[1][0] # 1

(***************************************************************************)
(* QuerySystem.  A query is a record; evaluate returns the result vector   *)
(* and the generator state it leaves.  std::shuffle is modelled as a       *)
(* rotation fixed by the generator state, which it advances.  Iterating a  *)
(* std::unordered_set<GridObject*> visits the objects in an order fixed by *)
(* their addresses: layout "asc" places the objects at rising addresses,   *)
(* layout "desc" at falling ones.                                          *)
(***************************************************************************)
\* the objects of the query model stand in a row, object o at column o; the
\* AOE model keeps the objects' locations in its world
location(W, o) == IF "loc" \in DOMAIN W THEN W.loc[o] ELSE [r |-> 0, c |-> o]

addr(layout, o) == IF layout = "asc" THEN o ELSE 0 - o

RECURSIVE UnorderedIter(_, _)
UnorderedIter(S, layout) ==
  IF S = {} THEN <<>>
  ELSE LET m == CHOOSE x \in S : \A y \in S : addr(layout, x) <= addr(layout, y)
       IN  <<m>> \o UnorderedIter(S \ {m}, layout)

shuffle(results, r) ==
  IF Len(results) <= 1 THEN results
  ELSE LET k == r % Len(results)
       IN  SubSeq(results, k + 1, Len(results)) \o SubSeq(results, 1, k)

rng_after_shuffle(results, r) ==
  IF Len(results) <= 1 THEN r ELSE (r + 1) % RngPeriod

TagFilter(e, t) == [kind |-> "tag", entity |-> e, tag_id |-> t, radius |-> 0]

MaxDistanceFilter(e, radius) ==
  [kind |-> "max_distance", entity |-> e, tag_id |-> -1, radius |-> radius]

\* Filter::passes: TagFilter, and MaxDistanceFilter in its binary mode (no
\* source query)
passes(W, f, ctx) ==
  LET entity == resolve(ctx, f.entity)
  IN  IF entity = 0 THEN FALSE
      ELSE CASE f.kind = "tag" -> f.tag_id \in W.bits[entity]
             [] f.kind = "max_distance" ->
                  IF ctx.actor = 0 THEN FALSE
                  ELSE \/ f.radius = 0
                       \/ LET dr == location(W, entity).r - location(W, ctx.actor).r
                              dc == location(W, entity).c - location(W, ctx.actor).c
                          IN  dr * dr + dc * dc <= f.radius * f.radius

matches_filters(W, obj, filter_configs, ctx) ==
  \/ filter_configs = <<>>
  \/ \A i \in 1..Len(filter_configs) :
       passes(W, filter_configs[i], [ctx EXCEPT !.actor = obj, !.target = obj])

\* variant of matches_edge_filters that binds the candidate as actor and the
\* net member as target
matches_edge_filters_swapped(W, source, candidate, filter_configs, ctx) ==
  \/ filter_configs = <<>>
  \/ \A i \in 1..Len(filter_configs) :
       passes(W, filter_configs[i], [ctx EXCEPT !.actor = candidate, !.target = source])

matches_edge_filters(W, source, candidate, filter_configs, ctx) ==
  \/ filter_configs = <<>>
  \/ \A i \in 1..Len(filter_configs) :
       passes(W, filter_configs[i], [ctx EXCEPT !.actor = source, !.target = candidate])

apply_limits_always_shuffles(results, max_items, order_by, r) ==
  LET s == shuffle(results, r)
  IN  [result |-> IF max_items > 0 /\ Len(s) > max_items THEN SubSeq(s, 1, max_items) ELSE s,
       rng |-> rng_after_shuffle(results, r)]

apply_limits(results, max_items, order_by, r) ==
  LET s == IF order_by = "random" THEN shuffle(results, r) ELSE results
  IN  [result |-> IF max_items > 0 /\ Len(s) > max_items THEN SubSeq(s, 1, max_items) ELSE s,
       rng |-> IF order_by = "random" THEN rng_after_shuffle(results, r) ELSE r]

TagQueryConfig(tag_id, filters, max_items, order_by) ==
  [kind |-> "tag", tag_id |-> tag_id, filters |-> filters,
   max_items |-> max_items, order_by |-> order_by]

ClosureQueryConfig(source, candidates, edge_filters, result_filters, max_items, order_by) ==
  [kind |-> "closure", source |-> source, candidates |-> candidates,
   edge_filters |-> edge_filters, result_filters |-> result_filters,
   max_items |-> max_items, order_by |-> order_by]

\* the breadth-first loop of ClosureQueryConfig::evaluate
RECURSIVE closure_bfs(_, _, _, _, _, _)
closure_bfs(W, frontier, visited, candidate_pool, edge_filters, ctx) ==
  IF frontier = <<>> THEN visited
  ELSE LET current == Head(frontier)
           reached == SelectSeq(candidate_pool,
                        LAMBDA c : /\ c \notin visited
                                   /\ matches_edge_filters(W, current, c, edge_filters, ctx))
       IN  closure_bfs(W, Tail(frontier) \o reached, visited \cup Range(reached),
                       candidate_pool, edge_filters, ctx)

RECURSIVE evaluate(_, _, _)
evaluate(W, q, ctx) ==
  CASE q.kind = "tag" ->
         apply_limits(SelectSeq(get_objects_with_tag(W, q.tag_id),
                                LAMBDA o : matches_filters(W, o, q.filters, ctx)),
                      q.max_items, q.order_by, W.rng)
    [] q.kind = "closure" ->
         LET roots == evaluate(W, q.source, ctx)
             pool == evaluate([W EXCEPT !.rng = roots.rng], q.candidates, ctx)
             visited == closure_bfs(W, roots.result, Range(roots.result), pool.result,
                                    q.edge_filters, ctx)
             result == UnorderedIter(visited, W.layout)
             filtered == IF q.result_filters = <<>> THEN result
                         ELSE SelectSeq(result,
                                LAMBDA o : matches_filters(W, o, q.result_filters, ctx))
         IN  apply_limits(filtered, q.max_items, q.order_by, pool.rng)

(***************************************************************************)
(* The materialized query tag of the model: ConnTag marks the closure of   *)
(* the seed objects through the candidates.                                *)
(***************************************************************************)
query_tags(W) ==
  << [tag_id |-> ConnTag,
      query |-> ClosureQueryConfig(
                  TagQueryConfig(SeedTag, <<>>, 0, "none"),
                  TagQueryConfig(TeamTag, <<>>, 0, "none"),
                  IF W.edge = "adjacent" THEN << MaxDistanceFilter("target", 1) >> ELSE <<>>,
                  <<>>, W.max_items, W.order_by)] >>

EngineCtx ==
  [actor |-> 0, target |-> 0, has_tag_index |-> TRUE,
   skip_on_update_trigger |-> FALSE, rng |-> TRUE, deferred |-> FALSE,
   game_stats |-> TRUE, grid |-> TRUE, collectives |-> TRUE, query_system |-> TRUE]

\* a world that keeps a trace records that the call changed the object's
\* tag bit; the others are left alone
Traced(W, W2, ev, o, t) ==
  IF "trace" \in DOMAIN W2 /\ (t \in W.bits[o]) # (t \in W2.bits[o])
  THEN [W2 EXCEPT !.trace = Append(@, [ev |-> ev, o |-> o, t |-> t])]
  ELSE W2

RECURSIVE remove_from_each(_, _, _, _, _)
remove_from_each(W, objs, i, tag_id, tag_ctx) ==
  IF i > Len(objs) THEN W
  ELSE remove_from_each(
         Traced(W, remove_tag(W, objs[i], tag_id,
                              [tag_ctx EXCEPT !.actor = objs[i], !.target = objs[i]]),
                "remove_tag", objs[i], tag_id),
         objs, i + 1, tag_id, tag_ctx)

RECURSIVE add_to_each(_, _, _, _, _)
add_to_each(W, objs, i, tag_id, tag_ctx) ==
  IF i > Len(objs) THEN W
  ELSE add_to_each(
         Traced(W, add_tag(W, objs[i], tag_id,
                           [tag_ctx EXCEPT !.actor = objs[i], !.target = objs[i]]),
                "add_tag", objs[i], tag_id),
         objs, i + 1, tag_id, tag_ctx)

apply_on_tag_add_handlers(W, o, tag_id, ctx) ==
  IF on_tag_add_cfg(W, o, tag_id) # <<>> /\ ctx.has_tag_index
  THEN ApplyHandlers(W, on_tag_add_cfg(W, o, tag_id), 1, <<"add", tag_id>>,
                     make_tag_handler_ctx(o, ctx))
  ELSE W

apply_on_tag_remove_handlers(W, o, tag_id, ctx) ==
  IF on_tag_remove_cfg(W, o, tag_id) # <<>> /\ ctx.has_tag_index
  THEN ApplyHandlers(W, on_tag_remove_cfg(W, o, tag_id), 1, <<"remove", tag_id>>,
                     make_tag_handler_ctx(o, ctx))
  ELSE W

\* the two handler loops that end recompute
RECURSIVE fire_removed(_, _, _, _, _, _)
fire_removed(W, objects_that_lost_tag, i, objects_that_keep_tag, tag_id, tag_ctx) ==
  IF i > Len(objects_that_lost_tag) THEN W
  ELSE LET obj == objects_that_lost_tag[i]
           W1 == IF obj \notin objects_that_keep_tag
                 THEN apply_on_tag_remove_handlers(W, obj, tag_id,
                        [tag_ctx EXCEPT !.actor = obj, !.target = obj])
                 ELSE W
       IN  fire_removed(W1, objects_that_lost_tag, i + 1, objects_that_keep_tag,
                        tag_id, tag_ctx)

RECURSIVE fire_added(_, _, _, _, _, _)
fire_added(W, keep_iter, i, original_set, tag_id, tag_ctx) ==
  IF i > Len(keep_iter) THEN W
  ELSE LET obj == keep_iter[i]
           W1 == IF obj \notin original_set
                 THEN apply_on_tag_add_handlers(W, obj, tag_id,
                        [tag_ctx EXCEPT !.actor = obj, !.target = obj])
                 ELSE W
       IN  fire_added(W1, keep_iter, i + 1, original_set, tag_id, tag_ctx)

\* the definition recompute works on: the first of query_tags with the tag id
find_def(W, tag_id) ==
  SelectSeq(query_tags(W), LAMBDA d : d.tag_id = tag_id)

\* recompute up to the end of its first loop: the tag removed from its
\* holders, the query evaluated, the tag added to the result
recompute_result(W, def, ctx) ==
  evaluate(remove_from_each(W, get_objects_with_tag(W, def.tag_id), 1, def.tag_id,
                            [ctx EXCEPT !.skip_on_update_trigger = TRUE]),
           def.query, ctx)

\* the objects whose tag bit is set
Holding(W, tag_id) == {o \in DOMAIN W.bits : tag_id \in W.bits[o]}

\* a world that keeps a membership record notes who held the tag before the
\* rewrite, what the query returned, who holds the tag after it and which
\* handlers had run by then
Rewritten(W, W2, tag_id, result) ==
  IF "snap" \in DOMAIN W
  THEN [W2 EXCEPT !.snap = [tag |-> tag_id, before |-> Holding(W, tag_id),
                            result |-> Range(result), after |-> Holding(W2, tag_id),
                            fired |-> W2.fired]]
  ELSE W2

\* variant of the rewrite that leaves the tag on its previous holders
recompute_tagged_keeps_holders(W, def, ctx) ==
  LET tag_ctx == [ctx EXCEPT !.skip_on_update_trigger = TRUE]
      ev == recompute_result(W, def, ctx)
  IN  Rewritten(W, add_to_each([W EXCEPT !.rng = ev.rng], ev.result, 1, def.tag_id, tag_ctx),
                def.tag_id, ev.result)

recompute_tagged(W, def, ctx) ==
  LET tag_ctx == [ctx EXCEPT !.skip_on_update_trigger = TRUE]
      W1 == remove_from_each(W, get_objects_with_tag(W, def.tag_id), 1, def.tag_id, tag_ctx)
      ev == recompute_result(W, def, ctx)
  IN  Rewritten(W, add_to_each([W1 EXCEPT !.rng = ev.rng], ev.result, 1, def.tag_id, tag_ctx),
                def.tag_id, ev.result)

recompute_fires_all_lost(W, tag_id, ctx) ==
  IF find_def(W, tag_id) = <<>> THEN W
  ELSE LET def == Head(find_def(W, tag_id))
           objects_that_lost_tag == get_objects_with_tag(W, def.tag_id)
           objects_that_keep_tag == Range(recompute_result(W, def, ctx).result)
           tag_ctx == [ctx EXCEPT !.skip_on_update_trigger = FALSE]
           W2 == recompute_tagged(W, def, ctx)
           W3 == fire_removed(W2, objects_that_lost_tag, 1, {}, tag_id, tag_ctx)
       IN  fire_added(W3, UnorderedIter(objects_that_keep_tag, W.layout), 1,
                      Range(objects_that_lost_tag), tag_id, tag_ctx)

\* variant of recompute that runs the add-handler loop first
recompute_fires_added_first(W, tag_id, ctx) ==
  IF find_def(W, tag_id) = <<>> THEN W
  ELSE LET def == Head(find_def(W, tag_id))
           objects_that_lost_tag == get_objects_with_tag(W, def.tag_id)
           objects_that_keep_tag == Range(recompute_result(W, def, ctx).result)
           tag_ctx == [ctx EXCEPT !.skip_on_update_trigger = FALSE]
           W2 == recompute_tagged(W, def, ctx)
           W3 == fire_added(W2, UnorderedIter(objects_that_keep_tag, W.layout), 1,
                            Range(objects_that_lost_tag), tag_id, tag_ctx)
       IN  fire_removed(W3, objects_that_lost_tag, 1, objects_that_keep_tag,
                        tag_id, tag_ctx)

recompute(W, tag_id, ctx) ==
  IF find_def(W, tag_id) = <<>> THEN W
  ELSE LET def == Head(find_def(W, tag_id))
           objects_that_lost_tag == get_objects_with_tag(W, def.tag_id)
           objects_that_keep_tag == Range(recompute_result(W, def, ctx).result)
           tag_ctx == [ctx EXCEPT !.skip_on_update_trigger = FALSE]
           W2 == recompute_tagged(W, def, ctx)
           W3 == fire_removed(W2, objects_that_lost_tag, 1, objects_that_keep_tag,
                              tag_id, tag_ctx)
       IN  fire_added(W3, UnorderedIter(objects_that_keep_tag, W.layout), 1,
                      Range(objects_that_lost_tag), tag_id, tag_ctx)

RECURSIVE compute_all_from(_, _, _)
compute_all_from(W, i, ctx) ==
  IF i > Len(query_tags(W)) THEN W
  ELSE compute_all_from(recompute_tagged(W, query_tags(W)[i], ctx), i + 1, ctx)

compute_all(W, ctx) == compute_all_from(W, 1, ctx)

(***************************************************************************)
(* The query model as a state machine.  The first object is the seed; all  *)
(* objects start as candidates; the engine computes the materialized tag   *)
(* at construction.  Objects gain and lose the candidates' tag, and the    *)
(* materialized tag is recomputed on request.                              *)
(***************************************************************************)
QWorld0(layout, edge, max_items, order_by, hcfg) ==
  [bits |-> [o \in QObjs |-> IF o = 1 THEN {SeedTag, TeamTag} ELSE {TeamTag}],
   objects |-> [t \in QTags |->
                  CASE t = SeedTag -> <<1>>
                    [] t = TeamTag -> [i \in 1..NumQObjs |-> i]
                    [] OTHER -> <<>>],
   counts |-> [t \in QTags |->
                 CASE t = SeedTag -> 1
                   [] t = TeamTag -> NumQObjs
                   [] OTHER -> 0],
   inv |-> [o \in QObjs |-> [item \in {0} |-> 0]],
   limits |-> [item \in {0} |-> 0],
   fired |-> <<>>,
   hcfg |-> hcfg,
   rng |-> 0,
   layout |-> layout, edge |-> edge, max_items |-> max_items, order_by |-> order_by]

\* the query world with the trace of the recomputed tag's events and the
\* membership around the last rewrite
QTraced(W) ==
  W @@ [trace |-> <<>>,
        snap |-> [tag |-> -1, before |-> {}, result |-> {}, after |-> {}, fired |-> <<>>]]

QNoHist == [phase |-> "idle", S_old |-> {}, S_new |-> {}, changed |-> FALSE, changed1 |-> FALSE]

\* what the materialized query reads
QueryInputs(W) == <<W.objects[SeedTag], W.objects[TeamTag]>>

QueryInit ==
  /\ \E layout \in {"asc", "desc"}, edge \in {"none", "adjacent"},
        max_items \in 0..MaxItems, order_by \in {"none", "random"},
        hcfg \in {"log", "cascade"} :
       qw = compute_all(QTraced(QWorld0(layout, edge, max_items, order_by, hcfg)), EngineCtx)
  /\ qh = QNoHist
  /\ tw = "idle" /\ th = "idle" /\ aw = "idle"
  /\ sw = "idle" /\ ow = "idle" /\ dw = "idle"
  /\ hw = "idle"

\* an object joins the candidates
QAddTeam(o) ==
  /\ qw' = add_tag([qw EXCEPT !.fired = <<>>, !.trace = <<>>], o, TeamTag, EngineCtx)
  /\ qh' = QNoHist
  /\ UNCHANGED notQueryVars

\* an object leaves the candidates
QRemoveTeam(o) ==
  /\ qw' = remove_tag([qw EXCEPT !.fired = <<>>, !.trace = <<>>], o, TeamTag, EngineCtx)
  /\ qh' = QNoHist
  /\ UNCHANGED notQueryVars

\* query_system->recompute(tag_id, ctx)
QRecompute(tag_id) ==
  /\ qw' = recompute([qw EXCEPT !.fired = <<>>, !.trace = <<>>], tag_id, EngineCtx)
  /\ qh' = IF find_def(qw, tag_id) = <<>> THEN QNoHist
           ELSE LET def == Head(find_def(qw, tag_id))
                IN  [phase |-> IF qh.phase = "idle" THEN "once" ELSE "twice",
                     S_old |-> Range(get_objects_with_tag(qw, tag_id)),
                     S_new |-> Range(recompute_result(qw, def, EngineCtx).result),
                     changed |-> QueryInputs(recompute_tagged(qw, def, EngineCtx))
                                   # QueryInputs(qw'),
                     changed1 |-> qh.changed]
  /\ UNCHANGED notQueryVars

QueryNext ==
  \/ \E o \in QObjs : QAddTeam(o)
  \/ \E o \in QObjs : QRemoveTeam(o)
  \/ \E tag_id \in {TeamTag, ConnTag} : QRecompute(tag_id)

SpecQuery == QueryInit /\ [][QueryNext]_vars

FiredCount(W, kind, o) ==
  Cardinality({i \in 1..Len(W.fired) : W.fired[i] = <<kind, o>>})

\* C2: a recompute of the materialized tag fires on_tag_remove exactly once
\* for each object that held the tag before and is not in the query's result,
\* on_tag_add exactly once for each object in the result that did not hold
\* the tag before, and neither for an object that is in both.
C2_RecomputeFiresNetChanges ==
  qh.phase \in {"once", "twice"} =>
    \A o \in QObjs :
      /\ FiredCount(qw, <<"remove", ConnTag>>, o)
           = (IF o \in qh.S_old \ qh.S_new THEN 1 ELSE 0)
      /\ FiredCount(qw, <<"add", ConnTag>>, o)
           = (IF o \in qh.S_new \ qh.S_old THEN 1 ELSE 0)

C2_Witness ==
  /\ qh.phase \in {"once", "twice"}
  /\ qh.S_old \ qh.S_new # {}
  /\ qh.S_new \ qh.S_old # {}
  /\ qh.S_old \cap qh.S_new # {}
  /\ Len(qw.fired) = 2

GridH == 2

GridW == 4

AgentA == 1

AgentB == 2

Healer == 3

Turret == 4

Beacon == 5

AoeAgents == <<AgentA, AgentB>>

AoeObjs == {AgentA, AgentB, Healer, Turret, Beacon}

MarkTag == 0

AoeItems == {"hp", "shield"}

HpLimit == 10

HpStart == 9

Heal == 5

Damage == 3

ShieldLimit == 2

FixedRadius == 2

AuraRadius == 1

\* std::numeric_limits<int>::max()
kIntMax == 2147483647

AoeCells == [r : 0..(GridH - 1), c : 0..(GridW - 1)]

\* the fixed sources of the healer and the turret, and with them the fixed
\* source of the beacon, an object outside every collective
CoreSources == <<"heal", "dmg", "claim">>

FixedSources == CoreSources \o <<"beacon">>

\* the agent's aura, and with it the mobile source of the beacon
MobileSources == <<"aura">>

AllMobileSources == MobileSources \o <<"pulse">>

AoeSources == Range(FixedSources) \cup Range(AllMobileSources)

getCollective(o) ==
  CASE o = AgentA -> 0
    [] o = Healer -> 0
    [] o = Turret -> 1
    [] OTHER -> -1

PresenceDelta(r, d) == [resource_id |-> r, delta |-> d]

AOEConfig(source, is_static, radius, effect_self, territory, filters, mutations, deltas) ==
  [source |-> source, is_static |-> is_static, radius |-> radius,
   effect_self |-> effect_self, controls_territory |-> territory,
   filters |-> filters, mutations |-> mutations, presence_deltas |-> deltas]

aoe_config(W, s) ==
  CASE s = "heal" ->
         AOEConfig(Healer, TRUE, W.radius["heal"], FALSE, W.territory, <<>>,
                   << DeltaMut("target", "hp", Heal), AddTagMut("target", MarkTag) >>,
                   << PresenceDelta("shield", 1) >>)
    [] s = "dmg" ->
         AOEConfig(Turret, TRUE, W.radius["dmg"], FALSE, W.territory,
                   << TagFilter("target", MarkTag) >>,
                   << DeltaMut("target", "hp", 0 - Damage), RemoveTagMut("target", MarkTag) >>,
                   <<>>)
    [] s = "claim" ->
         AOEConfig(Healer, TRUE, W.radius["claim"], FALSE, TRUE, <<>>, <<>>, <<>>)
    [] s = "aura" ->
         AOEConfig(AgentB, FALSE, W.radius["aura"], FALSE, FALSE, <<>>, <<>>,
                   << PresenceDelta("shield", 1) >>)
    [] s = "beacon" ->
         AOEConfig(Beacon, TRUE, W.radius["beacon"], FALSE, FALSE, <<>>, <<>>, <<>>)
    [] s = "pulse" ->
         AOEConfig(Beacon, FALSE, W.radius["pulse"], FALSE, FALSE, <<>>, <<>>,
                   << PresenceDelta("shield", 1) >>)

has_mutations(cfg) == cfg.mutations # <<>>

has_presence_deltas(cfg) == cfg.presence_deltas # <<>>

is_territory_aoe(cfg) == cfg.controls_territory

distance_sq(a, b) == (a.r - b.r) * (a.r - b.r) + (a.c - b.c) * (a.c - b.c)

in_range(source_loc, target_loc, range) ==
  distance_sq(source_loc, target_loc) <= range * range

\* AOETracker::register_fixed: the source is appended to the list of every
\* cell of the grid within its radius
\* variant of register_fixed that registers the whole square of the loops
register_fixed_square(W, s) ==
  [W EXCEPT !.fixed_sources = Append(@, s), !.cell_effects =
     [cell \in AoeCells |->
        LET range == aoe_config(W, s).radius
            dr == cell.r - W.loc[aoe_config(W, s).source].r
            dc == cell.c - W.loc[aoe_config(W, s).source].c
        IN  IF dr < 0 - range \/ dr > range \/ dc < 0 - range \/ dc > range
            THEN @[cell]
            ELSE Append(@[cell], s)]]

register_fixed(W, s) ==
  [W EXCEPT !.fixed_sources = Append(@, s), !.cell_effects =
     [cell \in AoeCells |->
        LET range == aoe_config(W, s).radius
            dr == cell.r - W.loc[aoe_config(W, s).source].r
            dc == cell.c - W.loc[aoe_config(W, s).source].c
        IN  IF dr < 0 - range \/ dr > range \/ dc < 0 - range \/ dc > range
            THEN @[cell]
            ELSE IF dr * dr + dc * dc > range * range
            THEN @[cell]
            ELSE Append(@[cell], s)]]

RECURSIVE apply_presence_deltas(_, _, _, _, _)
apply_presence_deltas(W, deltas, i, target, multiplier) ==
  IF i > Len(deltas) THEN W
  ELSE apply_presence_deltas(
         inventory_update(W, target, deltas[i].resource_id, deltas[i].delta * multiplier),
         deltas, i + 1, target, multiplier)

\* the applications of presence deltas made outside the ticks, by the
\* operation under way, where the world keeps them
Logged(W, s, target, multiplier) ==
  IF "presence_log" \in DOMAIN W /\ W.last_op # "tick"
  THEN [W EXCEPT !.presence_log = Append(@, <<s, target, multiplier>>)]
  ELSE W

\* the reasons for which targets have left sources so far, where the world
\* keeps them
Exited(W, cause) ==
  IF "exit_causes" \in DOMAIN W THEN [W EXCEPT !.exit_causes = @ \cup {cause}] ELSE W

\* AOESource::apply_presence_deltas; balance counts, for the source and the
\* target, the enter applications less the exit applications, and misapplied
\* says whether an enter ever followed an enter or an exit no enter
AOESource_apply_presence_deltas(W, s, target, multiplier) ==
  apply_presence_deltas(
    [Logged(W, s, target, multiplier) EXCEPT
       !.balance[s][target] = @ + multiplier,
       !.misapplied = @ \/ (W.balance[s][target] = (IF multiplier = 1 THEN 1 ELSE 0))],
    aoe_config(W, s).presence_deltas, 1, target, multiplier)

passes_filters(W, s, target, ctx) ==
  \A i \in 1..Len(aoe_config(W, s).filters) :
    passes(W, aoe_config(W, s).filters[i],
           [ctx EXCEPT !.actor = aoe_config(W, s).source, !.target = target])

\* AOESource::try_apply
AOESource_try_apply(W, s, target, ctx) ==
  IF ~passes_filters(W, s, target, ctx) THEN W
  ELSE ApplyMutations(W, aoe_config(W, s).mutations, 1,
                      [ctx EXCEPT !.actor = aoe_config(W, s).source, !.target = target])

(***************************************************************************)
(* TerritoryContest.                                                       *)
(***************************************************************************)
TerritoryContest0 ==
  [friendly_present |-> FALSE, enemy_present |-> FALSE,
   friendly_best_key |-> kIntMax, enemy_best_key |-> kIntMax]

consider(contest, is_friendly, key) ==
  IF is_friendly
  THEN [contest EXCEPT !.friendly_present = TRUE, !.friendly_best_key = Min2(@, key)]
  ELSE [contest EXCEPT !.enemy_present = TRUE, !.enemy_best_key = Min2(@, key)]

\* variant of owner that gives a tie to the friendly side
owner_ties_go_friendly(contest) ==
  IF contest.friendly_present /\ contest.enemy_present
  THEN IF contest.friendly_best_key <= contest.enemy_best_key THEN "Friendly" ELSE "Enemy"
  ELSE IF contest.friendly_present THEN "Friendly"
  ELSE IF contest.enemy_present THEN "Enemy"
  ELSE "Neutral"

owner(contest) ==
  IF contest.friendly_present /\ contest.enemy_present
  THEN IF contest.friendly_best_key < contest.enemy_best_key THEN "Friendly"
       ELSE IF contest.enemy_best_key < contest.friendly_best_key THEN "Enemy"
       ELSE "Neutral"
  ELSE IF contest.friendly_present THEN "Friendly"
  ELSE IF contest.enemy_present THEN "Enemy"
  ELSE "Neutral"

consider_territory(W, contest, s, is_friendly, target, ctx) ==
  LET cfg == aoe_config(W, s)
  IN  IF ~is_territory_aoe(cfg) \/ cfg.source = 0 THEN contest
      ELSE IF getCollective(cfg.source) < 0 THEN contest
      ELSE IF (~cfg.effect_self /\ cfg.source = target) \/ ~passes_filters(W, s, target, ctx)
           THEN contest
      ELSE consider(contest, is_friendly, distance_sq(W.loc[cfg.source], W.loc[target]))

RECURSIVE consider_each(_, _, _, _, _, _, _)
consider_each(W, contest, sources, i, is_friendly, target, ctx) ==
  IF i > Len(sources) THEN contest
  ELSE consider_each(W, consider_territory(W, contest, sources[i], is_friendly, target, ctx),
                     sources, i + 1, is_friendly, target, ctx)

\* what process_source decides for a source with an effect: whether the
\* target counts as inside it this tick
effective_passes(W, s, target, ctx, territory_owner) ==
  LET cfg == aoe_config(W, s)
      skip_self == ~cfg.effect_self /\ cfg.source = target
      now_passes == ~skip_self /\ passes_filters(W, s, target, ctx)
  IN  IF getCollective(target) >= 0 /\ is_territory_aoe(cfg) /\ cfg.source # 0
      THEN IF getCollective(cfg.source) < 0 THEN FALSE
           ELSE LET source_is_friendly == getCollective(cfg.source) = getCollective(target)
                    territory_matches_source ==
                      \/ territory_owner = "Friendly" /\ source_is_friendly
                      \/ territory_owner = "Enemy" /\ ~source_is_friendly
                IN  now_passes /\ territory_matches_source
      ELSE now_passes

process_source_never_exits(W, s, target, ctx, territory_owner) ==
  LET cfg == aoe_config(W, s)
  IN  IF ~has_mutations(cfg) /\ ~has_presence_deltas(cfg) THEN W
      ELSE LET passing == effective_passes(W, s, target, ctx, territory_owner)
               was_inside == s \in W.target_fixed_inside[target]
               W1 == IF passing /\ ~was_inside
                     THEN AOESource_apply_presence_deltas(
                            [W EXCEPT !.inside[s] = @ \cup {target},
                                      !.target_fixed_inside[target] = @ \cup {s}],
                            s, target, 1)
                     ELSE W
           IN  IF passing /\ has_mutations(cfg)
               THEN AOESource_try_apply(W1, s, target, ctx)
               ELSE W1

\* variant of process_source that applies the enter deltas on every tick
\* the target passes, not only on the tick it comes in
process_source_enters_every_tick(W, s, target, ctx, territory_owner) ==
  LET cfg == aoe_config(W, s)
  IN  IF ~has_mutations(cfg) /\ ~has_presence_deltas(cfg) THEN W
      ELSE LET passing == effective_passes(W, s, target, ctx, territory_owner)
               was_inside == s \in W.target_fixed_inside[target]
               W1 == IF passing
                     THEN AOESource_apply_presence_deltas(
                            [W EXCEPT !.inside[s] = @ \cup {target},
                                      !.target_fixed_inside[target] = @ \cup {s}],
                            s, target, 1)
                     ELSE IF ~passing /\ was_inside
                     THEN AOESource_apply_presence_deltas(
                            [W EXCEPT !.inside[s] = @ \ {target},
                                      !.target_fixed_inside[target] = @ \ {s}],
                            s, target, -1)
                     ELSE W
           IN  IF passing /\ has_mutations(cfg)
               THEN AOESource_try_apply(W1, s, target, ctx)
               ELSE W1

process_source(W, s, target, ctx, territory_owner) ==
  LET cfg == aoe_config(W, s)
  IN  IF ~has_mutations(cfg) /\ ~has_presence_deltas(cfg) THEN W
      ELSE LET passing == effective_passes(W, s, target, ctx, territory_owner)
               was_inside == s \in W.target_fixed_inside[target]
               W1 == IF passing /\ ~was_inside
                     THEN AOESource_apply_presence_deltas(
                            [W EXCEPT !.inside[s] = @ \cup {target},
                                      !.target_fixed_inside[target] = @ \cup {s}],
                            s, target, 1)
                     ELSE IF ~passing /\ was_inside
                     THEN AOESource_apply_presence_deltas(
                            [Exited(W, IF passes_filters(W, s, target, ctx)
                                       THEN "contest" ELSE "filter") EXCEPT
                               !.inside[s] = @ \ {target},
                               !.target_fixed_inside[target] = @ \ {s}],
                            s, target, -1)
                     ELSE W
           IN  IF passing /\ has_mutations(cfg)
               THEN AOESource_try_apply(W1, s, target, ctx)
               ELSE W1

\* process_source, with a record of what it found: whether the filter chain
\* passed and whether the source's side held the territory
observed_process_source(W, s, target, ctx, territory_owner) ==
  LET cfg == aoe_config(W, s)
      skip_self == ~cfg.effect_self /\ cfg.source = target
  IN  [process_source(W, s, target, ctx, territory_owner) EXCEPT
         !.pass[s][target] = passes_filters(W, s, target, ctx),
         !.won[s][target] =
            effective_passes(W, s, target, ctx, territory_owner)
              = (~skip_self /\ passes_filters(W, s, target, ctx))]

RECURSIVE process_each(_, _, _, _, _, _)
process_each(W, sources, i, target, ctx, territory_owner) ==
  IF i > Len(sources) THEN W
  ELSE process_each(
         [observed_process_source(W, sources[i], target, ctx, territory_owner)
            EXCEPT !.processed[target] = Append(@, sources[i])],
         sources, i + 1, target, ctx, territory_owner)

\* exits for the sources the target was inside that are not at its cell
RECURSIVE process_exits(_, _, _, _, _)
process_exits(W, prev, i, current_cell_set, target) ==
  IF i > Len(prev) THEN W
  ELSE LET s == prev[i]
           W1 == IF s \in current_cell_set THEN W
                 ELSE AOESource_apply_presence_deltas(
                        [Exited(W, "range") EXCEPT
                           !.inside[s] = @ \ {target},
                           !.target_fixed_inside[target] = @ \ {s}],
                        s, target, -1)
       IN  process_exits(W1, prev, i + 1, current_cell_set, target)

\* variant of apply_deferred that walks the order from its end
RECURSIVE apply_deferred_last_first(_, _, _, _)
apply_deferred_last_first(W, order, i, target) ==
  IF i > Len(order) THEN W
  ELSE LET item == order[Len(order) + 1 - i]
           delta == W.deferred_deltas[item]
           W1 == IF delta # 0 THEN inventory_update(W, target, item, delta) ELSE W
       IN  apply_deferred_last_first(W1, order, i + 1, target)

\* the net deltas of the accumulator, applied in first-seen order
RECURSIVE apply_deferred(_, _, _, _)
apply_deferred(W, order, i, target) ==
  IF i > Len(order) THEN W
  ELSE LET delta == W.deferred_deltas[order[i]]
           W1 == IF delta # 0 THEN inventory_update(W, target, order[i], delta) ELSE W
       IN  apply_deferred(W1, order, i + 1, target)

\* variant of processing_order that runs the friendly sources first
processing_order_friendly_first(enemy_sources, other_sources, friendly_sources) ==
  friendly_sources \o other_sources \o enemy_sources

\* the three loops over the partitions at the end of apply_fixed
processing_order(enemy_sources, other_sources, friendly_sources) ==
  enemy_sources \o other_sources \o friendly_sources

NoDeferred(W) ==
  [W EXCEPT !.deferred_deltas = [item \in AoeItems |-> 0], !.deferred_order = <<>>]

apply_fixed(W, target, ctx) ==
  LET target_ctx == [ctx EXCEPT !.actor = 0, !.target = target, !.deferred = TRUE]
      target_collective_id == getCollective(target)
      cell_effects == W.cell_effects[W.loc[target]]
      is_sided(s) == /\ target_collective_id >= 0
                     /\ aoe_config(W, s).source # 0
                     /\ getCollective(aoe_config(W, s).source) >= 0
      friendly_sources ==
        SelectSeq(cell_effects, LAMBDA s :
          is_sided(s) /\ getCollective(aoe_config(W, s).source) = target_collective_id)
      enemy_sources ==
        SelectSeq(cell_effects, LAMBDA s :
          is_sided(s) /\ getCollective(aoe_config(W, s).source) # target_collective_id)
      other_sources == SelectSeq(cell_effects, LAMBDA s : ~is_sided(s))
      prev_inside == SelectSeq(FixedSources, LAMBDA s : s \in W.target_fixed_inside[target])
      W1 == process_exits([NoDeferred(W) EXCEPT !.processed[target] = <<>>],
                          prev_inside, 1, Range(cell_effects), target)
      territory_contest ==
        IF target_collective_id >= 0
        THEN consider_each(W1,
               consider_each(W1, TerritoryContest0, friendly_sources, 1, TRUE,
                             target, target_ctx),
               enemy_sources, 1, FALSE, target, target_ctx)
        ELSE TerritoryContest0
      territory_owner ==
        IF target_collective_id >= 0 THEN owner(territory_contest) ELSE "Neutral"
      W2 == process_each(W1, processing_order(enemy_sources, other_sources, friendly_sources),
                         1, target, target_ctx, territory_owner)
      W3 == apply_deferred(W2, W2.deferred_order, 1, target)
  IN  NoDeferred([W3 EXCEPT !.territory_owner[target] = territory_owner, !.seen =
                    [s \in AoeSources |->
                       IF s \in Range(FixedSources)
                       THEN [@[s] EXCEPT ![target] = s \in Range(cell_effects)]
                       ELSE @[s]]])

\* AOETracker::apply_mobile for one source and one agent
apply_mobile_to(W, s, agent, mobile_ctx) ==
  LET cfg == aoe_config(W, s)
      was_in == agent \in W.inside[s]
      reach == in_range(W.loc[cfg.source], W.loc[agent], cfg.radius)
      now_passes == passes_filters(W, s, agent, mobile_ctx)
      Seen(V) == [V EXCEPT !.seen[s][agent] = reach,
                           !.pass[s][agent] = now_passes,
                           !.won[s][agent] = TRUE]
  IN  IF ~cfg.effect_self /\ cfg.source = agent THEN Seen(W)
      ELSE IF ~reach
      THEN IF was_in
           THEN Seen(AOESource_apply_presence_deltas(
                       [Exited(W, "range") EXCEPT !.inside[s] = @ \ {agent}], s, agent, -1))
           ELSE Seen(W)
      ELSE IF now_passes
      THEN LET W1 == IF ~was_in
                     THEN AOESource_apply_presence_deltas(
                            [W EXCEPT !.inside[s] = @ \cup {agent}], s, agent, 1)
                     ELSE W
           IN  Seen(IF has_mutations(cfg)
                    THEN AOESource_try_apply(W1, s, agent, mobile_ctx)
                    ELSE W1)
      ELSE IF was_in
      THEN Seen(AOESource_apply_presence_deltas(
                  [Exited(W, "filter") EXCEPT !.inside[s] = @ \ {agent}], s, agent, -1))
      ELSE Seen(W)

RECURSIVE apply_mobile_from(_, _, _, _, _)
apply_mobile_from(W, agents, si, ai, mobile_ctx) ==
  IF si > Len(W.mobile_sources) THEN W
  ELSE IF ai > Len(agents) THEN apply_mobile_from(W, agents, si + 1, 1, mobile_ctx)
  ELSE apply_mobile_from(apply_mobile_to(W, W.mobile_sources[si], agents[ai], mobile_ctx),
                         agents, si, ai + 1, mobile_ctx)

apply_mobile(W, agents, ctx) ==
  apply_mobile_from(W, agents, 1, 1, [ctx EXCEPT !.actor = 0, !.target = 0])

RECURSIVE apply_fixed_each(_, _, _, _)
apply_fixed_each(W, agents, i, ctx) ==
  IF i > Len(agents) THEN W
  ELSE apply_fixed_each(apply_fixed(W, agents[i], ctx), agents, i + 1, ctx)

\* an agent's move along its row: it stays where it is when the cell it
\* heads for is outside the grid or occupied
move(W, agent, dc) ==
  LET to == [r |-> W.loc[agent].r, c |-> W.loc[agent].c + dc]
  IN  IF to \in AoeCells /\ \A o \in AoeObjs \ W.removed : W.loc[o] # to
      THEN [W EXCEPT !.loc[agent] = to]
      ELSE W

RECURSIVE move_each(_, _, _, _)
move_each(W, agents, i, dcs) ==
  IF i > Len(agents) THEN W
  ELSE move_each(move(W, agents[i], dcs[i]), agents, i + 1, dcs)

(***************************************************************************)
(* Unregistration.  The sources of an object are those whose configuration *)
(* names it; the tracker keeps them per object in registration order.      *)
(***************************************************************************)
SourcesOf(W, sources, obj) ==
  SelectSeq(sources, LAMBDA s : aoe_config(W, s).source = obj)

RECURSIVE max_range_of(_, _, _, _)
max_range_of(W, sources, i, max_range) ==
  IF i > Len(sources) THEN max_range
  ELSE max_range_of(W, sources, i + 1,
                    IF aoe_config(W, sources[i]).radius > max_range
                    THEN aoe_config(W, sources[i]).radius ELSE max_range)

\* the loop over the targets inside one source: the exit deltas, and for a
\* fixed source the erasure from the target's reverse set
RECURSIVE exit_each(_, _, _, _, _)
exit_each(W, s, targets, i, reverse) ==
  IF i > Len(targets) THEN W
  ELSE LET W1 == AOESource_apply_presence_deltas(Exited(W, "unregister"), s, targets[i], -1)
       IN  exit_each(IF reverse
                     THEN [W1 EXCEPT !.target_fixed_inside[targets[i]] = @ \ {s}]
                     ELSE W1,
                     s, targets, i + 1, reverse)

RECURSIVE exit_sources(_, _, _, _)
exit_sources(W, sources, i, reverse) ==
  IF i > Len(sources) THEN W
  ELSE LET s == sources[i]
           targets == SelectSeq(AoeAgents, LAMBDA a : a \in W.inside[s])
       IN  exit_sources([exit_each(W, s, targets, 1, reverse) EXCEPT !.inside[s] = {}],
                        sources, i + 1, reverse)

erase_from_cells(W, obj, max_range) ==
  [W EXCEPT !.cell_effects =
     [cell \in AoeCells |->
        LET dr == cell.r - W.loc[obj].r
            dc == cell.c - W.loc[obj].c
        IN  IF dr < 0 - max_range \/ dr > max_range \/ dc < 0 - max_range \/ dc > max_range
            THEN @[cell]
            ELSE SelectSeq(@[cell], LAMBDA e : aoe_config(W, e).source # obj)]]

\* variant of unregister_fixed that leaves the targets' reverse sets alone
unregister_fixed_keeps_reverse(W, obj) ==
  LET mine == SourcesOf(W, W.fixed_sources, obj)
  IN  IF mine = <<>> THEN W
      ELSE LET W1 == erase_from_cells(W, obj, max_range_of(W, mine, 1, 0))
               W2 == exit_sources(W1, mine, 1, FALSE)
           IN  [W2 EXCEPT !.fixed_sources =
                  SelectSeq(@, LAMBDA s : aoe_config(W, s).source # obj)]

unregister_fixed(W, obj) ==
  LET mine == SourcesOf(W, W.fixed_sources, obj)
  IN  IF mine = <<>> THEN W
      ELSE LET W1 == erase_from_cells(W, obj, max_range_of(W, mine, 1, 0))
               W2 == exit_sources(W1, mine, 1, TRUE)
           IN  [W2 EXCEPT !.fixed_sources =
                  SelectSeq(@, LAMBDA s : aoe_config(W, s).source # obj)]

unregister_mobile(W, obj) ==
  [exit_sources(W, SourcesOf(W, W.mobile_sources, obj), 1, FALSE) EXCEPT
     !.mobile_sources = SelectSeq(@, LAMBDA s : aoe_config(W, s).source # obj)]

unregister_source(W, obj) == unregister_mobile(unregister_fixed(W, obj), obj)

\* Grid::remove_from_grid: the object's cell becomes free; the object stays
\* in the table of objects
remove_from_grid(W, obj) == [W EXCEPT !.removed = @ \cup {obj}]

\* TagIndex::unregister_object: the object leaves the list of every tag
unregister_object(W, obj) ==
  [W EXCEPT !.objects = [t \in DOMAIN @ |-> SelectSeq(@[t], LAMBDA o : o # obj)],
            !.counts = [t \in DOMAIN @ |->
                          Len(SelectSeq(W.objects[t], LAMBDA o : o # obj))]]

\* the end of ResourceTransferMutation::apply for a source that is a grid
\* object, has remove_source_when_empty set and was emptied by the transfer
remove_source_when_empty(W, obj) == unregister_object(remove_from_grid(W, obj), obj)

(***************************************************************************)
(* The AOE model as a state machine: every step is a tick in which the     *)
(* agents move and the engine applies the fixed AOEs to each agent and     *)
(* then the mobile AOEs.  gained and lost hold the growth of the agents'   *)
(* stats during the tick, before holds the inventories at its start.       *)
(***************************************************************************)
AoeWorld0(territory, report, hp) ==
  [bits |-> [o \in AoeObjs |-> IF o \in Range(AoeAgents) THEN {MarkTag} ELSE {}],
   objects |-> [t \in {MarkTag} |-> AoeAgents],
   counts |-> [t \in {MarkTag} |-> Len(AoeAgents)],
   inv |-> [o \in AoeObjs |->
              [item \in AoeItems |->
                 IF item # "hp" THEN 0 ELSE IF o = AgentA THEN hp ELSE HpStart]],
   limits |-> [item \in AoeItems |-> IF item = "hp" THEN HpLimit ELSE ShieldLimit],
   modifiers |-> {},
   fired |-> <<>>,
   hcfg |-> "aoe",
   loc |-> [o \in AoeObjs |->
              CASE o = AgentA -> [r |-> 1, c |-> 1]
                [] o = AgentB -> [r |-> 1, c |-> GridW - 1]
                [] o = Healer -> [r |-> 0, c |-> 1]
                [] o = Turret -> [r |-> 0, c |-> 2]
                [] o = Beacon -> [r |-> 0, c |-> 0]],
   radius |-> [s \in AoeSources |->
                 IF s \in Range(AllMobileSources) THEN AuraRadius ELSE FixedRadius],
   cell_effects |-> [cell \in AoeCells |-> <<>>],
   fixed_sources |-> <<>>,
   removed |-> {},
   processed |-> [a \in Range(AoeAgents) |-> <<>>],
   territory_owner |-> [a \in Range(AoeAgents) |-> "Neutral"],
   balance |-> [s \in AoeSources |-> [a \in Range(AoeAgents) |-> 0]],
   misapplied |-> FALSE,
   last_op |-> "init",
   mobile_sources |-> MobileSources,
   inside |-> [s \in AoeSources |-> {}],
   target_fixed_inside |-> [a \in Range(AoeAgents) |-> {}],
   deferred_deltas |-> [item \in AoeItems |-> 0],
   deferred_order |-> <<>>,
   gained |-> [a \in AoeObjs |-> [item \in AoeItems |-> 0]],
   lost |-> [a \in AoeObjs |-> [item \in AoeItems |-> 0]],
   report |-> report,
   territory |-> territory,
   ticked |-> FALSE,
   before |-> [o \in AoeObjs |-> [item \in AoeItems |-> 0]],
   marked_before |-> {},
   seen |-> [s \in AoeSources |-> [a \in Range(AoeAgents) |-> FALSE]],
   pass |-> [s \in AoeSources |-> [a \in Range(AoeAgents) |-> FALSE]],
   won |-> [s \in AoeSources |-> [a \in Range(AoeAgents) |-> TRUE]]]

RECURSIVE register_each(_, _, _)
register_each(W, sources, i) ==
  IF i > Len(sources) THEN W
  ELSE register_each(register_fixed(W, sources[i]), sources, i + 1)

AoeInit ==
  /\ \E territory \in BOOLEAN, report \in {"clamped", "requested"}, hp \in 0..HpLimit :
       aw = register_each(AoeWorld0(territory, report, hp), CoreSources, 1)
  /\ tw = "idle" /\ th = "idle" /\ qw = "idle" /\ qh = "idle"
  /\ sw = "idle" /\ ow = "idle" /\ dw = "idle"
  /\ hw = "idle"

\* the AOE part of MettaGrid::_step, after the agents' moves
aoe_step(W, dcs) ==
  LET W0 == [W EXCEPT !.gained = [a \in AoeObjs |-> [item \in AoeItems |-> 0]],
                      !.lost = [a \in AoeObjs |-> [item \in AoeItems |-> 0]],
                      !.before = W.inv,
                      !.marked_before = {a \in Range(AoeAgents) : MarkTag \in W.bits[a]},
                      !.ticked = TRUE,
                      !.last_op = "tick"]
      W1 == move_each(W0, AoeAgents, 1, dcs)
      W2 == apply_fixed_each(W1, AoeAgents, 1, EngineCtx)
  IN  apply_mobile(W2, AoeAgents, EngineCtx)

AoeTick(dcs) ==
  /\ aw' = aoe_step(aw, dcs)
  /\ UNCHANGED notAoeVars

AoeNext == \E dcs \in [1..Len(AoeAgents) -> {-1, 0, 1}] : AoeTick(dcs)

SpecAoe == AoeInit /\ [][AoeNext]_vars

\* the HP a fixed-AOE pass adds to an agent: the deltas of the sources whose
\* mutations ran for it
NetHp(W, a) ==
  (IF a \in W.inside["heal"] THEN Heal ELSE 0)
    - (IF a \in W.inside["dmg"] THEN Damage ELSE 0)

\* C3 as stated: an agent with HP 9 under a cap of 10, on a cell covered by a
\* friendly fixed AOE of +5 HP and an enemy fixed AOE of -3 HP, has HP 7
\* after the tick and its gained stat has grown by 2.
C3_OpposingTileLeavesSeven ==
  (/\ aw.ticked
   /\ aw.before[AgentA]["hp"] = 9
   /\ AgentA \in aw.inside["heal"] /\ AgentA \in aw.inside["dmg"]) =>
    /\ aw.inv[AgentA]["hp"] = 7
    /\ aw.gained[AgentA]["hp"] = 2

\* C3 amended: the fixed AOEs of a tick change an agent's HP by their net
\* delta, clamped once to 0..cap: HP 9 under a cap of 10 with +5 and -3 ends
\* at min(9 + 2, 10) = 10.  The gained stat grows by no more than a positive
\* net delta and the lost stat by no more than a negative one, and at least
\* by the change of the HP.
C3_NetDeltaClampedOnce ==
  aw.ticked =>
    \A a \in Range(AoeAgents) :
      LET net == NetHp(aw, a)
          hp0 == aw.before[a]["hp"]
          hp1 == aw.inv[a]["hp"]
      IN  /\ hp1 = Max2(0, Min2(hp0 + net, HpLimit))
          /\ aw.gained[a]["hp"] <= Max2(net, 0)
          /\ aw.lost[a]["hp"] <= Max2(0 - net, 0)
          /\ aw.gained[a]["hp"] >= Max2(hp1 - hp0, 0)
          /\ aw.lost[a]["hp"] >= Max2(hp0 - hp1, 0)

C3_Witness ==
  /\ aw.ticked
  /\ aw.before[AgentA]["hp"] = 9
  /\ AgentA \in aw.inside["heal"] /\ AgentA \in aw.inside["dmg"]
  /\ aw.inv[AgentA]["hp"] = 10
  /\ aw.gained[AgentA]["hp"] = 1

\* the sources the tracker holds
Registered(W) == Range(W.fixed_sources) \cup Range(W.mobile_sources)

HasEffect(W, s) ==
  \/ ~aoe_config(W, s).is_static
  \/ has_mutations(aoe_config(W, s))
  \/ has_presence_deltas(aoe_config(W, s))

SelfExcluded(W, s, a) == ~aoe_config(W, s).effect_self /\ aoe_config(W, s).source = a

InRadius(W, s, a) ==
  in_range(W.loc[aoe_config(W, s).source], W.loc[a], aoe_config(W, s).radius)

\* C4 as stated: after every tick an agent is in the inside set of a source
\* iff it is within the source's radius and the source's filter chain passes
\* for it.
C4_InsideIffInRangeAndPasses ==
  aw.ticked =>
    \A s \in Registered(aw), a \in Range(AoeAgents) :
      (a \in aw.inside[s]) <=> (InRadius(aw, s, a) /\ passes_filters(aw, s, a, EngineCtx))

\* C4 amended: after every tick an agent is in the inside set of a source iff
\* the source is mobile or has a mutation or presence delta, the agent is not
\* the source's own object barred by effect_self, and, when the tick
\* processed the pair, the agent was within the radius, the filter chain
\* passed and the territory contest did not go against the source.  The
\* agent is then still within the radius at the end of the tick.
C4_InsideIffPassedWhenProcessed ==
  aw.ticked =>
    \A s \in Registered(aw), a \in Range(AoeAgents) :
      /\ (a \in aw.inside[s]) <=>
           (/\ HasEffect(aw, s)
            /\ ~SelfExcluded(aw, s, a)
            /\ aw.seen[s][a] /\ aw.pass[s][a] /\ aw.won[s][a])
      /\ aw.seen[s][a] <=> InRadius(aw, s, a)
      /\ (aoe_config(aw, s).is_static =>
            ((a \in aw.inside[s]) <=> (s \in aw.target_fixed_inside[a])))

C4_Witness ==
  /\ aw.ticked
  /\ \E a \in Range(AoeAgents) : a \in aw.inside["dmg"] /\ MarkTag \notin aw.bits[a]
  /\ AgentA \in aw.inside["aura"]
  /\ AgentA \notin aw.inside["heal"]

(***************************************************************************)
(* The engine tick, MettaGrid::_step, for two agents that share a pool:    *)
(* action 0 is the noop, action 1 takes a unit from the pool (priority 1), *)
(* action 2 gives one back (priority 0); any other index is invalid.  An   *)
(* agent's reward has one entry, which reads the amount the agent holds.   *)
(* Rewards are integers here; the entry has no denominator.                *)
(***************************************************************************)
MaxTicks == 3

PoolSize == 3

StepAgents == {1, 2}

ActionInputs == {-1, 0, 1, 2, 3}

RewardWeight == 2

RewardMax == 3

action_handlers == << [name |-> "noop", priority |-> 0],
                      [name |-> "take", priority |-> 1],
                      [name |-> "give", priority |-> 0] >>

max_action_priority == 1

\* Action::handle: the world after the action and whether it succeeded
handle(W, name, agent) ==
  CASE name = "take" ->
         IF W.pool > 0
         THEN [W EXCEPT !.pool = @ - 1, !.amount[agent] = @ + 1, !.action_success[agent] = TRUE]
         ELSE [W EXCEPT !.action_success[agent] = FALSE]
    [] name = "give" ->
         IF W.amount[agent] > 0
         THEN [W EXCEPT !.pool = @ + 1, !.amount[agent] = @ - 1, !.action_success[agent] = TRUE]
         ELSE [W EXCEPT !.action_success[agent] = FALSE]
    [] OTHER -> [W EXCEPT !.action_success[agent] = TRUE]

handle_invalid_action(W, agent_idx) ==
  [W EXCEPT !.invalid_index[agent_idx] = @ + 1, !.action_success[agent_idx] = FALSE]

\* a world that keeps the list of handler invocations notes the agent and
\* the action of the call
Invoked(W, agent_idx, action_idx) ==
  IF "calls" \in DOMAIN W
  THEN [W EXCEPT !.calls = Append(@, <<agent_idx, action_idx>>)]
  ELSE W

\* the body of the action loop for one agent at one priority level
step_action(W, agent_idx, actions, current_priority) ==
  LET action_idx == actions[agent_idx]
  IN  IF action_idx < 0 \/ action_idx >= Len(action_handlers)
      THEN handle_invalid_action(W, agent_idx)
      ELSE IF action_handlers[action_idx + 1].priority # current_priority THEN W
      ELSE LET W1 == handle(Invoked(W, agent_idx, action_idx),
                            action_handlers[action_idx + 1].name, agent_idx)
           IN  IF W1.action_success[agent_idx]
               THEN [W1 EXCEPT !.executed_actions[agent_idx] = action_idx]
               ELSE W1

\* variant of the action loop that starts at the lowest priority
RECURSIVE step_actions_lowest_first(_, _, _, _, _)
step_actions_lowest_first(W, agent_indices, actions, offset, i) ==
  IF offset > max_action_priority THEN W
  ELSE IF i > Len(agent_indices)
  THEN step_actions_lowest_first(W, agent_indices, actions, offset + 1, 1)
  ELSE step_actions_lowest_first(step_action(W, agent_indices[i], actions, offset),
                                 agent_indices, actions, offset, i + 1)

RECURSIVE step_actions(_, _, _, _, _)
step_actions(W, agent_indices, actions, offset, i) ==
  IF offset > max_action_priority THEN W
  ELSE IF i > Len(agent_indices)
  THEN step_actions(W, agent_indices, actions, offset + 1, 1)
  ELSE step_actions(step_action(W, agent_indices[i], actions, max_action_priority - offset),
                    agent_indices, actions, offset, i + 1)

\* variant of compute_entries that takes every entry as differential
compute_entries_always_differential(W, agent) ==
  LET raw == W.amount[agent] * RewardWeight
      val == IF W.has_max THEN Min2(raw, RewardMax) ELSE raw
      total_delta == val - W.prev_value[agent]
  IN  [W EXCEPT !.prev_value[agent] = val,
                !.rewards[agent] = IF total_delta # 0 THEN @ + total_delta ELSE @]

\* RewardHelper::compute_entries for the agent's single entry
compute_entries(W, agent) ==
  LET raw == W.amount[agent] * RewardWeight
      val == IF W.has_max THEN Min2(raw, RewardMax) ELSE raw
      total_delta == IF W.accumulate THEN val ELSE val - W.prev_value[agent]
  IN  [W EXCEPT !.prev_value[agent] = val,
                !.rewards[agent] = IF total_delta # 0 THEN @ + total_delta ELSE @]

RECURSIVE compute_rewards(_, _)
compute_rewards(W, agents) ==
  IF agents = <<>> THEN W
  ELSE compute_rewards(compute_entries(W, Head(agents)), Tail(agents))

update_episode_rewards(W) ==
  [W EXCEPT !.episode_rewards = [i \in StepAgents |-> @[i] + W.rewards[i]]]

step_rewards_before_entries(W) ==
  compute_rewards(update_episode_rewards(W), <<1, 2>>)

step_rewards(W) ==
  update_episode_rewards(compute_rewards(W, <<1, 2>>))

\* variant of the truncation check that fires one step late
step_truncation_after_max(W) ==
  IF W.max_steps > 0 /\ W.current_step > W.max_steps
  THEN IF W.episode_truncates
       THEN [W EXCEPT !.truncations = [i \in StepAgents |-> TRUE]]
       ELSE [W EXCEPT !.terminals = [i \in StepAgents |-> TRUE]]
  ELSE W

step_truncation(W) ==
  IF W.max_steps > 0 /\ W.current_step >= W.max_steps
  THEN IF W.episode_truncates
       THEN [W EXCEPT !.truncations = [i \in StepAgents |-> TRUE]]
       ELSE [W EXCEPT !.terminals = [i \in StepAgents |-> TRUE]]
  ELSE W

step(W, actions) ==
  LET W1 == [W EXCEPT !.rewards = [i \in StepAgents |-> 0],
                      !.action_success = [i \in StepAgents |-> FALSE],
                      !.executed_actions = [i \in StepAgents |-> 0],
                      !.current_step = @ + 1]
      agent_indices == shuffle(<<1, 2>>, W1.rng)
      W2 == step_actions([W1 EXCEPT !.rng = rng_after_shuffle(<<1, 2>>, W1.rng)],
                         agent_indices, actions, 0, 1)
  IN  step_truncation(step_rewards(W2))

StepWorld0(accumulate, has_max, max_steps, episode_truncates) ==
  [current_step |-> 0,
   rng |-> 0,
   pool |-> PoolSize,
   amount |-> [i \in StepAgents |-> 0],
   rewards |-> [i \in StepAgents |-> 0],
   episode_rewards |-> [i \in StepAgents |-> 0],
   prev_value |-> [i \in StepAgents |-> 0],
   action_success |-> [i \in StepAgents |-> FALSE],
   executed_actions |-> [i \in StepAgents |-> 0],
   invalid_index |-> [i \in StepAgents |-> 0],
   terminals |-> [i \in StepAgents |-> FALSE],
   truncations |-> [i \in StepAgents |-> FALSE],
   accumulate |-> accumulate, has_max |-> has_max,
   max_steps |-> max_steps, episode_truncates |-> episode_truncates,
   reward_sum |-> [i \in StepAgents |-> 0]]

StepInit ==
  /\ \E accumulate \in BOOLEAN, has_max \in BOOLEAN,
        max_steps \in {0, MaxTicks - 1}, episode_truncates \in BOOLEAN :
       sw = StepWorld0(accumulate, has_max, max_steps, episode_truncates)
  /\ tw = "idle" /\ th = "idle" /\ qw = "idle" /\ qh = "idle"
  /\ aw = "idle" /\ ow = "idle" /\ dw = "idle"
  /\ hw = "idle"

\* one call of step() with the action vector the caller wrote; reward_sum
\* adds up what the reward buffer holds at the end of each tick
Step(actions) ==
  /\ sw.current_step < MaxTicks
  /\ sw' = LET W == step(sw, actions)
           IN  [W EXCEPT !.reward_sum = [i \in StepAgents |-> @[i] + W.rewards[i]]]
  /\ UNCHANGED notStepVars

StepNext == \E actions \in [StepAgents -> ActionInputs] : Step(actions)

SpecStep == StepInit /\ [][StepNext]_vars

\* C5: after every call of step(), each agent's episode reward is the sum of
\* the values its reward held at the end of the ticks so far.
C5_EpisodeRewardIsSumOfTickRewards ==
  \A i \in StepAgents : sw.episode_rewards[i] = sw.reward_sum[i]

C5_Witness ==
  /\ sw.current_step >= 2
  /\ sw.rewards[1] < 0
  /\ sw.episode_rewards[1] > 0
  /\ sw.episode_rewards[2] # sw.rewards[2]

(***************************************************************************)
(* The token observation encoder.  Two agents stand on a small grid; agent *)
(* 1 belongs to a collective, carries tags and an inventory, agent 2 has   *)
(* none of these.  A token is <<location, feature_id, value>>; a row is    *)
(* the agent's num_observation_tokens tokens.                              *)
(***************************************************************************)
ObsGridH == 2

ObsGridW == 3

ObsMaxTicks == 2

MaxTokens == 6

obs_height == 3

obs_width == 3

token_value_base == 4

ObsAgents == {1, 2}

ObsResources == <<0, 1>>

EmptyTokenByte == 255

GLOBAL_LOCATION == 254

EmptyToken == <<EmptyTokenByte, EmptyTokenByte, EmptyTokenByte>>

EmptyRow(n) == [i \in 1..n |-> EmptyToken]

ObservationFeature == [Group |-> 1, Frozen |-> 2, EpisodeCompletionPct |-> 3, LastAction |-> 4, LastReward |-> 5, Vibe |-> 6, Tag |-> 7, Goal |-> 8, Collective |-> 9, LpEast |-> 10, LpWest |-> 11, LpNorth |-> 12, LpSouth |-> 13, AgentId |-> 14, LastActionMove |-> 15, AoeMask |-> 16, Territory |-> 17]

Abs(x) == IF x < 0 THEN 0 - x ELSE x

pack(r, c) == r * 16 + c

\* offsets of the observation window in ascending Manhattan distance
PatternKey(o) == (Abs(o[1]) + Abs(o[2])) * 10000 + (o[1] + 50) * 100 + (o[2] + 50)

RECURSIVE PatternFrom(_)
PatternFrom(S) ==
  IF S = {} THEN <<>>
  ELSE LET o == CHOOSE x \in S : \A y \in S : PatternKey(x) <= PatternKey(y)
       IN  <<o>> \o PatternFrom(S \ {o})

ObservationPattern(height, width) ==
  PatternFrom({<<r, c>> : r \in (0 - (height \div 2))..(height \div 2), c \in (0 - (width \div 2))..(width \div 2)})

get_inventory_feature_id(item) == 20 + 2 * item

\* ObservationTokenEncoder::encode: the value's digits in the token base
encode(feature_id, value) ==
  IF value >= token_value_base
  THEN << <<feature_id, value % token_value_base>>, <<feature_id + 1, (value \div token_value_base) % token_value_base>> >>
  ELSE << <<feature_id, value % token_value_base>> >>

RECURSIVE compute_num_tokens(_, _)
compute_num_tokens(max_value, base) ==
  IF max_value < base THEN 1 ELSE 1 + compute_num_tokens(max_value \div base, base)

\* Inventory::get and Inventory::items: the held items with their amounts
RECURSIVE held_items(_, _, _)
held_items(W, o, items) ==
  IF items = <<>> THEN <<>>
  ELSE (IF W.inv[o][Head(items)] > 0 THEN << <<Head(items), W.inv[o][Head(items)]>> >> ELSE <<>>)
       \o held_items(W, o, Tail(items))

Inventory_get(W, o) == held_items(W, o, ObsResources)

Inventory_items(W, o) == held_items(W, o, ObsResources)

\* ObservationEncoder::append_inventory_tokens
append_inventory_tokens(features, item, amount) ==
  features \o encode(get_inventory_feature_id(item), amount)

RECURSIVE append_inventory(_, _)
append_inventory(features, held) ==
  IF held = <<>> THEN features
  ELSE append_inventory(append_inventory_tokens(features, Head(held)[1], Head(held)[2]), Tail(held))

\* the loop over the kMaxTags tag bits; it is left once no set bit remains
RECURSIVE tag_features(_, _, _)
tag_features(features, tag_bits, i) ==
  IF i >= kMaxTags \/ (\A t \in tag_bits : t < i) THEN features
  ELSE tag_features(IF i \in tag_bits THEN Append(features, <<ObservationFeature.Tag, i>>) ELSE features,
                    tag_bits, i + 1)

\* GridObject::obs_features
GridObject_obs_features(W, o) ==
  LET f0 == IF getCollective(o) # -1 /\ ObservationFeature.Collective # 0
            THEN << <<ObservationFeature.Collective, getCollective(o)>> >> ELSE <<>>
      f1 == tag_features(f0, W.tag_bits[o], 0)
      f2 == IF W.vibe[o] # 0 THEN Append(f1, <<ObservationFeature.Vibe, W.vibe[o]>>) ELSE f1
  IN  append_inventory(f2, Inventory_get(W, o))

\* Agent::obs_features
obs_features(W, o) ==
  GridObject_obs_features(W, o)
    \o << <<ObservationFeature.Group, W.group[o]>>,
          <<ObservationFeature.Frozen, IF W.frozen[o] # 0 THEN 1 ELSE 0>>,
          <<ObservationFeature.AgentId, o - 1>> >>

GridObject_max_obs_features(max_tags, num_resources, tokens_per_item) ==
  1 + max_tags + 1 + (num_resources * tokens_per_item)

max_obs_features(max_tags, num_resources, tokens_per_item) ==
  GridObject_max_obs_features(max_tags, num_resources, tokens_per_item) + 3

\* ObservationEncoder::write_inventory_tokens: as many of the item's tokens
\* as fit into the room left
write_inventory_tokens(out, room, item, amount) ==
  LET tokens == encode(get_inventory_feature_id(item), amount)
  IN  out \o SubSeq(tokens, 1, Min2(room, Len(tokens)))

RECURSIVE write_inventory(_, _, _)
write_inventory(out, max_tokens, held) ==
  IF held = <<>> \/ Len(out) >= max_tokens THEN out
  ELSE write_inventory(write_inventory_tokens(out, max_tokens - Len(out), Head(held)[1], Head(held)[2]),
                       max_tokens, Tail(held))

RECURSIVE write_tag_features(_, _, _, _)
write_tag_features(out, max_tokens, tag_bits, i) ==
  IF i >= kMaxTags \/ (\A t \in tag_bits : t < i) \/ Len(out) >= max_tokens THEN out
  ELSE write_tag_features(IF i \in tag_bits THEN Append(out, <<ObservationFeature.Tag, i>>) ELSE out,
                          max_tokens, tag_bits, i + 1)

\* variant of GridObject::write_obs_features that emits the vibe before the tags
GridObject_write_obs_features_vibe_first(W, o, max_tokens) ==
  LET o0 == IF getCollective(o) # -1 /\ ObservationFeature.Collective # 0 /\ 0 < max_tokens
            THEN << <<ObservationFeature.Collective, getCollective(o)>> >> ELSE <<>>
      o1 == IF W.vibe[o] # 0 /\ Len(o0) < max_tokens
            THEN Append(o0, <<ObservationFeature.Vibe, W.vibe[o]>>) ELSE o0
      o2 == write_tag_features(o1, max_tokens, W.tag_bits[o], 0)
  IN  write_inventory(o2, max_tokens, Inventory_items(W, o))

\* GridObject::write_obs_features: the tokens written to the scratch buffer
GridObject_write_obs_features(W, o, max_tokens) ==
  LET o0 == IF getCollective(o) # -1 /\ ObservationFeature.Collective # 0 /\ 0 < max_tokens
            THEN << <<ObservationFeature.Collective, getCollective(o)>> >> ELSE <<>>
      o1 == write_tag_features(o0, max_tokens, W.tag_bits[o], 0)
      o2 == IF W.vibe[o] # 0 /\ Len(o1) < max_tokens
            THEN Append(o1, <<ObservationFeature.Vibe, W.vibe[o]>>) ELSE o1
  IN  write_inventory(o2, max_tokens, Inventory_items(W, o))

push_if_room(out, max_tokens, token) ==
  IF Len(out) < max_tokens THEN Append(out, token) ELSE out

\* Agent::write_obs_features
write_obs_features(W, o, max_tokens) ==
  LET w0 == GridObject_write_obs_features(W, o, max_tokens)
      w1 == push_if_room(w0, max_tokens, <<ObservationFeature.Group, W.group[o]>>)
      w2 == push_if_room(w1, max_tokens, <<ObservationFeature.Frozen, IF W.frozen[o] # 0 THEN 1 ELSE 0>>)
  IN  push_if_room(w2, max_tokens, <<ObservationFeature.AgentId, o - 1>>)

\* ObservationEncoder::append_tokens_if_room_available: writes the tokens that
\* fit behind the first `start` tokens of the row, reports how many there were
RECURSIVE located(_, _)
located(tokens, packed) ==
  IF tokens = <<>> THEN <<>>
  ELSE << <<packed, Head(tokens)[1], Head(tokens)[2]>> >> \o located(Tail(tokens), packed)

append_tokens_if_room_available(row, start, tokens, packed) ==
  LET tokens_to_write == Min2(Max2(Len(row) - start, 0), Len(tokens))
  IN  [row |-> SubSeq(row, 1, start) \o located(SubSeq(tokens, 1, tokens_to_write), packed)
                 \o SubSeq(row, start + tokens_to_write + 1, Len(row)),
       n |-> Len(tokens)]

\* ObservationEncoder::encode_tokens
encode_tokens(W, obj, row, start, packed) ==
  append_tokens_if_room_available(row, start, obs_features(W, obj), packed)

\* ObservationEncoder::encode_tokens_direct
encode_tokens_direct(W, obj, row, start, packed, scratch_size) ==
  append_tokens_if_room_available(row, start, write_obs_features(W, obj, scratch_size), packed)

\* the global tokens built at the head of both encoders
global_tokens(W, agent_idx, action) ==
  LET g == W.global_obs
      pct == IF W.max_steps > 0
             THEN IF W.current_step >= W.max_steps THEN 255
                  ELSE ((256 * W.current_step) \div W.max_steps) % 256
             ELSE 0
      t0 == IF g.episode_completion_pct THEN << <<ObservationFeature.EpisodeCompletionPct, pct>> >> ELSE <<>>
      t1 == IF g.last_action THEN Append(t0, <<ObservationFeature.LastAction, action % 256>>) ELSE t0
      moved == W.loc[agent_idx] # W.prev_agent_locations[agent_idx]
      t2 == IF ObservationFeature.LastActionMove # 0
            THEN Append(t1, <<ObservationFeature.LastActionMove, IF moved THEN 1 ELSE 0>>) ELSE t1
      t3 == IF g.last_reward
            THEN Append(t2, <<ObservationFeature.LastReward, (W.rewards[agent_idx] * 100) % 256>>) ELSE t2
      t4 == IF g.goal_obs THEN t3 \o W.agent_goal_obs_tokens[agent_idx] ELSE t3
      dc == W.loc[agent_idx][2] - W.spawn_location[agent_idx][2]
      dr == W.spawn_location[agent_idx][1] - W.loc[agent_idx][1]
      t5 == IF ~g.local_position THEN t4
            ELSE IF dc > 0 THEN Append(t4, <<ObservationFeature.LpEast, Min2(dc, 255)>>)
            ELSE IF dc < 0 THEN Append(t4, <<ObservationFeature.LpWest, Min2(0 - dc, 255)>>)
            ELSE t4
  IN  IF ~g.local_position THEN t5
      ELSE IF dr > 0 THEN Append(t5, <<ObservationFeature.LpNorth, Min2(dr, 255)>>)
      ELSE IF dr < 0 THEN Append(t5, <<ObservationFeature.LpSouth, Min2(0 - dr, 255)>>)
      ELSE t5

\* HandlerContext::resolve_game_value for the agent's own values
resolve_game_value(W, gv, agent_idx) ==
  IF gv.kind = "inventory" THEN W.inv[agent_idx][gv.id]
  ELSE Cardinality({o \in ObsAgents : gv.id \in W.tag_bits[o]})

RECURSIVE emit_obs_value_tokens_from(_, _, _, _, _, _)
emit_obs_value_tokens_from(W, row, agent_idx, tokens_written, total_written, k) ==
  IF k > Len(W.global_obs.obs) \/ tokens_written + total_written >= Len(row)
  THEN [row |-> row, n |-> total_written]
  ELSE LET obs_cfg == W.global_obs.obs[k]
           tokens == encode(obs_cfg.feature_id, resolve_game_value(W, obs_cfg.value, agent_idx))
           a == append_tokens_if_room_available(row, tokens_written + total_written, tokens, GLOBAL_LOCATION)
       IN  emit_obs_value_tokens_from(W, a.row, agent_idx, tokens_written, total_written + a.n, k + 1)

emit_obs_value_tokens(W, row, agent_idx, tokens_written) ==
  emit_obs_value_tokens_from(W, row, agent_idx, tokens_written, 0, 1)

\* AOETracker::fixed_observability_at: the outcome of the territory contest
\* at the cell, seen by the observer
fixed_observability_at(W, object_loc, agent_idx) ==
  IF getCollective(agent_idx) = -1 THEN 0 ELSE W.cell_owner[object_loc]

emit_tile_observability_tokens(W, S, agent_idx, object_loc, packed) ==
  LET aoe_value == fixed_observability_at(W, object_loc, agent_idx)
      buffer_capacity == Len(S.row)
      S1 == IF aoe_value = 0 THEN S
            ELSE IF S.tokens_written < buffer_capacity
            THEN [S EXCEPT !.attempted = @ + 1, !.tokens_written = @ + 1,
                           !.row[S.tokens_written + 1] = <<packed, ObservationFeature.AoeMask, aoe_value>>]
            ELSE [S EXCEPT !.attempted = @ + 1]
  IN  IF aoe_value = 0 THEN S1
      ELSE IF S1.tokens_written < buffer_capacity
      THEN [S1 EXCEPT !.attempted = @ + 1, !.tokens_written = @ + 1,
                      !.row[S1.tokens_written + 1] = <<packed, ObservationFeature.Territory, aoe_value>>]
      ELSE [S1 EXCEPT !.attempted = @ + 1]

object_at(W, object_loc) ==
  IF \E o \in ObsAgents : W.loc[o] = object_loc
  THEN CHOOSE o \in ObsAgents : W.loc[o] = object_loc
  ELSE 0

\* the cell.visited bookkeeping of both encoders
track_visited(W, S, obj) ==
  IF S.visited[obj] < W.current_step
  THEN [S EXCEPT !.cell_visited = @ + (W.current_step - S.visited[obj]), !.visited[obj] = W.current_step]
  ELSE S

\* both encoders up to the spatial loop
encode_global(W, agent_idx, action) ==
  LET N == W.num_observation_tokens
      g == append_tokens_if_room_available(W.observations[agent_idx], 0, global_tokens(W, agent_idx, action), GLOBAL_LOCATION)
      v == emit_obs_value_tokens(W, g.row, agent_idx, Min2(g.n, N))
  IN  [row |-> v.row, attempted |-> g.n + v.n, tokens_written |-> Min2(g.n + v.n, N),
       visited |-> W.visited, cell_visited |-> W.cell_visited[agent_idx]]

in_window(W, agent_idx, off) ==
  LET r == W.loc[agent_idx][1] + off[1]
      c == W.loc[agent_idx][2] + off[2]
      r_start == Max2(W.loc[agent_idx][1] - (obs_height \div 2), 0)
      c_start == Max2(W.loc[agent_idx][2] - (obs_width \div 2), 0)
      r_end == Min2(W.loc[agent_idx][1] + (obs_height \div 2) + 1, ObsGridH)
      c_end == Min2(W.loc[agent_idx][2] + (obs_width \div 2) + 1, ObsGridW)
  IN  ~(r < r_start \/ r >= r_end \/ c < c_start \/ c >= c_end)

packed_location(off) == pack(off[1] + (obs_height \div 2), off[2] + (obs_width \div 2))

\* variant that derives the free space from the attempted tokens
record_token_stats_free_of_attempted(W, S, agent_idx) ==
  [W EXCEPT !.observations[agent_idx] = S.row,
            !.visited = S.visited,
            !.cell_visited[agent_idx] = S.cell_visited,
            !.token_stats[agent_idx] = [tokens_written |-> S.tokens_written,
                                        tokens_dropped |-> S.attempted - S.tokens_written,
                                        tokens_free_space |-> W.num_observation_tokens - S.attempted]]

\* the token counts an encoder adds to the stats at its end
record_token_stats(W, S, agent_idx) ==
  [W EXCEPT !.observations[agent_idx] = S.row,
            !.visited = S.visited,
            !.cell_visited[agent_idx] = S.cell_visited,
            !.token_stats[agent_idx] = [tokens_written |-> S.tokens_written,
                                        tokens_dropped |-> S.attempted - S.tokens_written,
                                        tokens_free_space |-> W.num_observation_tokens - S.tokens_written]]

\* one cell of the reference encoder's spatial loop
original_cell(W, S, agent_idx, off) ==
  IF ~in_window(W, agent_idx, off) THEN S
  ELSE LET object_loc == <<W.loc[agent_idx][1] + off[1], W.loc[agent_idx][2] + off[2]>>
           obj == object_at(W, object_loc)
           buffer_capacity == W.num_observation_tokens
           T == emit_tile_observability_tokens(W, S, agent_idx, object_loc, packed_location(off))
       IN  IF obj = 0 THEN [T EXCEPT !.tokens_written = Min2(T.attempted, buffer_capacity)]
           ELSE LET V == track_visited(W, T, obj)
                    e == encode_tokens(W, obj, V.row, V.tokens_written, packed_location(off))
                IN  [V EXCEPT !.row = e.row, !.attempted = @ + e.n,
                              !.tokens_written = Min2(V.attempted + e.n, buffer_capacity)]

RECURSIVE original_cells(_, _, _, _)
original_cells(W, S, agent_idx, offsets) ==
  IF offsets = <<>> THEN S
  ELSE original_cells(W, original_cell(W, S, agent_idx, Head(offsets)), agent_idx, Tail(offsets))

compute_observation_original(W, agent_idx, action) ==
  record_token_stats(W, original_cells(W, encode_global(W, agent_idx, action), agent_idx,
                                       ObservationPattern(obs_height, obs_width)), agent_idx)

\* one cell of the optimized encoder's spatial loop
optimized_cell(W, S, agent_idx, off) ==
  IF ~in_window(W, agent_idx, off) THEN S
  ELSE LET object_loc == <<W.loc[agent_idx][1] + off[1], W.loc[agent_idx][2] + off[2]>>
           obj == object_at(W, object_loc)
           buffer_capacity == W.num_observation_tokens
           T == emit_tile_observability_tokens(W, S, agent_idx, object_loc, packed_location(off))
       IN  IF obj = 0 THEN [T EXCEPT !.tokens_written = Min2(T.attempted, buffer_capacity)]
           ELSE LET V == track_visited(W, T, obj)
                IN  IF V.tokens_written >= buffer_capacity
                    THEN [V EXCEPT !.attempted = @ + Len(write_obs_features(W, obj, W.obs_features_scratch))]
                    ELSE LET e == encode_tokens_direct(W, obj, V.row, V.tokens_written, packed_location(off), W.obs_features_scratch)
                         IN  [V EXCEPT !.row = e.row, !.attempted = @ + e.n,
                                       !.tokens_written = Min2(V.attempted + e.n, buffer_capacity)]

RECURSIVE optimized_cells(_, _, _, _)
optimized_cells(W, S, agent_idx, offsets) ==
  IF offsets = <<>> THEN S
  ELSE optimized_cells(W, optimized_cell(W, S, agent_idx, Head(offsets)), agent_idx, Tail(offsets))

compute_observation_optimized(W, agent_idx, action) ==
  record_token_stats(W, optimized_cells(W, encode_global(W, agent_idx, action), agent_idx,
                                        W.observation_offsets), agent_idx)

\* the comparison at the end of the shadow validation: W2 is the world after
\* the secondary encoder, shadow_obs_buffer the primary's row, which is restored
shadow_compare(W2, shadow_obs_buffer, agent_idx) ==
  [W2 EXCEPT !.comparison_count = @ + 1,
             !.mismatch_count = IF shadow_obs_buffer # W2.observations[agent_idx] THEN @ + 1 ELSE @,
             !.observations[agent_idx] = shadow_obs_buffer]

secondary_observation(W1, agent_idx, action, primary_was_optimized) ==
  IF primary_was_optimized
  THEN compute_observation_original(W1, agent_idx, action)
  ELSE compute_observation_optimized(W1, agent_idx, action)

\* runs the other encoder on the cleared row, compares, restores the row
shadow_validate_observation(W, agent_idx, action, primary_was_optimized) ==
  shadow_compare(secondary_observation([W EXCEPT !.observations[agent_idx] = EmptyRow(W.num_observation_tokens)],
                                       agent_idx, action, primary_was_optimized),
                 W.observations[agent_idx], agent_idx)

primary_observation(W, agent_idx, action) ==
  IF W.use_optimized_primary
  THEN compute_observation_optimized(W, agent_idx, action)
  ELSE compute_observation_original(W, agent_idx, action)

validate_if_enabled(W, agent_idx, action) ==
  IF W.validation_enabled
  THEN shadow_validate_observation(W, agent_idx, action, W.use_optimized_primary)
  ELSE W

\* the dispatcher: the primary encoder, then the shadow validation if enabled
compute_observation(W, agent_idx, action) ==
  validate_if_enabled(primary_observation(W, agent_idx, action), agent_idx, action)

RECURSIVE compute_observations_from(_, _, _)
compute_observations_from(W, executed_actions, idx) ==
  IF idx > Cardinality(ObsAgents) THEN W
  ELSE compute_observations_from(compute_observation(W, idx, executed_actions[idx]), executed_actions, idx + 1)

compute_observations(W, executed_actions) == compute_observations_from(W, executed_actions, 1)

ObsCells == {<<r, c>> : r \in 0..(ObsGridH - 1), c \in 0..(ObsGridW - 1)}

obs_action_handlers == <<"noop", "move_east", "move_west", "change_vibe">>

\* Action::handle for the actions of this world
obs_handle(W, name, agent) ==
  LET to == IF name = "move_east" THEN <<W.loc[agent][1], W.loc[agent][2] + 1>>
            ELSE <<W.loc[agent][1], W.loc[agent][2] - 1>>
  IN  CASE name \in {"move_east", "move_west"} ->
             IF to \in ObsCells /\ object_at(W, to) = 0
             THEN [W EXCEPT !.loc[agent] = to, !.action_success[agent] = TRUE]
             ELSE [W EXCEPT !.action_success[agent] = FALSE]
        [] name = "change_vibe" -> [W EXCEPT !.vibe[agent] = 1 - @, !.action_success[agent] = TRUE]
        [] OTHER -> [W EXCEPT !.action_success[agent] = TRUE]

RECURSIVE obs_step_actions(_, _, _)
obs_step_actions(W, agent_indices, actions) ==
  IF agent_indices = <<>> THEN W
  ELSE LET agent_idx == Head(agent_indices)
           action_idx == actions[agent_idx]
           W1 == obs_handle(W, obs_action_handlers[action_idx + 1], agent_idx)
           W2 == IF W1.action_success[agent_idx]
                 THEN [W1 EXCEPT !.executed_actions[agent_idx] = action_idx] ELSE W1
       IN  obs_step_actions(W2, Tail(agent_indices), actions)

\* MettaGrid::_step up to the observations
obs_step(W, actions) ==
  LET W1 == [W EXCEPT !.prev_agent_locations = W.loc,
                      !.rewards = [a \in ObsAgents |-> 0],
                      !.observations = [a \in ObsAgents |-> EmptyRow(W.num_observation_tokens)],
                      !.action_success = [a \in ObsAgents |-> FALSE],
                      !.executed_actions = [a \in ObsAgents |-> 0],
                      !.current_step = @ + 1,
                      !.rng = rng_after_shuffle(<<1, 2>>, W.rng)]
      W2 == obs_step_actions(W1, shuffle(<<1, 2>>, W.rng), actions)
  IN  compute_observations(W2, W2.executed_actions)

GlobalObsConfig(full) ==
  [episode_completion_pct |-> full, last_action |-> full, last_reward |-> full,
   goal_obs |-> full, local_position |-> full,
   obs |-> IF full
           THEN << [feature_id |-> 30, value |-> [kind |-> "inventory", id |-> 0]],
                   [feature_id |-> 32, value |-> [kind |-> "tag_count", id |-> 0]] >>
           ELSE <<>>]

ObsWorld0(n, full, amount, optimized, validation) ==
  [num_observation_tokens |-> n,
   observations |-> [a \in ObsAgents |-> EmptyRow(n)],
   loc |-> [a \in ObsAgents |-> IF a = 1 THEN <<0, 0>> ELSE <<0, ObsGridW - 1>>],
   prev_agent_locations |-> [a \in ObsAgents |-> IF a = 1 THEN <<0, 0>> ELSE <<0, ObsGridW - 1>>],
   spawn_location |-> [a \in ObsAgents |-> IF a = 1 THEN <<0, 0>> ELSE <<0, ObsGridW - 1>>],
   tag_bits |-> [a \in ObsAgents |-> IF a = 1 THEN {0, NumTags - 1} ELSE {}],
   vibe |-> [a \in ObsAgents |-> 0],
   inv |-> [a \in ObsAgents |-> [i \in Range(ObsResources) |-> IF a = 1 /\ i = 0 THEN amount ELSE 0]],
   group |-> [a \in ObsAgents |-> a - 1],
   frozen |-> [a \in ObsAgents |-> 0],
   visited |-> [a \in ObsAgents |-> 0],
   cell_visited |-> [a \in ObsAgents |-> 0],
   current_step |-> 0,
   max_steps |-> IF full THEN ObsMaxTicks ELSE 0,
   rewards |-> [a \in ObsAgents |-> 0],
   action_success |-> [a \in ObsAgents |-> FALSE],
   executed_actions |-> [a \in ObsAgents |-> 0],
   rng |-> 0,
   global_obs |-> GlobalObsConfig(full),
   agent_goal_obs_tokens |-> [a \in ObsAgents |-> IF a = 1 THEN << <<ObservationFeature.Goal, get_inventory_feature_id(0)>> >> ELSE <<>>],
   cell_owner |-> [cell \in ObsCells |-> IF full /\ cell[2] = 1 THEN cell[1] + 1 ELSE 0],
   observation_offsets |-> ObservationPattern(obs_height, obs_width),
   obs_features_scratch |-> max_obs_features(NumTags, Len(ObsResources), compute_num_tokens(65535, token_value_base)),
   use_optimized_primary |-> optimized,
   validation_enabled |-> validation,
   comparison_count |-> 0,
   mismatch_count |-> 0,
   token_stats |-> [a \in ObsAgents |-> [tokens_written |-> 0, tokens_dropped |-> 0, tokens_free_space |-> 0]]]

\* construction ends with _init_buffers, which computes the first observations
ObsInit ==
  /\ \E n \in {1, 4, MaxTokens}, full \in BOOLEAN, amount \in {0, 5}, optimized \in BOOLEAN, validation \in BOOLEAN :
       ow = compute_observations(ObsWorld0(n, full, amount, optimized, validation), [a \in ObsAgents |-> 0])
  /\ tw = "idle" /\ th = "idle" /\ qw = "idle" /\ qh = "idle"
  /\ aw = "idle" /\ sw = "idle" /\ dw = "idle"
  /\ hw = "idle"

ObsStep(actions) ==
  /\ ow.current_step < ObsMaxTicks
  /\ ow' = obs_step(ow, actions)
  /\ UNCHANGED notObsVars

ObsNext == \E actions \in [ObsAgents -> 0..3] : ObsStep(actions)

SpecObs == ObsInit /\ [][ObsNext]_vars

\* C6 as stated: for every agent, the three amounts an encoder call adds to
\* the stats sum to num_observation_tokens.
C6_TokenStatsSumToCapacity ==
  \A a \in ObsAgents :
    ow.token_stats[a].tokens_written + ow.token_stats[a].tokens_dropped
      + ow.token_stats[a].tokens_free_space = ow.num_observation_tokens

\* C6 amended: written plus free space is num_observation_tokens; dropped is
\* never negative and is positive only when no free space is left, so the
\* three amounts sum to num_observation_tokens plus the dropped tokens.
C6_WrittenPlusFreeIsCapacity ==
  \A a \in ObsAgents :
    /\ ow.token_stats[a].tokens_written + ow.token_stats[a].tokens_free_space = ow.num_observation_tokens
    /\ ow.token_stats[a].tokens_dropped >= 0
    /\ ow.token_stats[a].tokens_dropped > 0 => ow.token_stats[a].tokens_free_space = 0
    /\ ow.token_stats[a].tokens_dropped = 0 =>
         ow.token_stats[a].tokens_written + ow.token_stats[a].tokens_dropped
           + ow.token_stats[a].tokens_free_space = ow.num_observation_tokens

C6_Witness ==
  /\ ow.current_step >= 1
  /\ \E a \in ObsAgents : ow.token_stats[a].tokens_dropped > 1
  /\ \E a \in ObsAgents : ow.token_stats[a].tokens_written = ow.num_observation_tokens

\* C8: on every state, for every agent and executed action, the reference and
\* the optimized encoder fill the agent's cleared row with the same tokens,
\* and the shadow validation has counted no mismatch.
C8_EncodersWriteSameRows ==
  /\ ow.mismatch_count = 0
  /\ \A a \in ObsAgents, action \in 0..3 :
       LET W0 == [ow EXCEPT !.observations[a] = EmptyRow(ow.num_observation_tokens)]
       IN  compute_observation_original(W0, a, action).observations[a]
             = compute_observation_optimized(W0, a, action).observations[a]

C8_Witness ==
  /\ ow.validation_enabled
  /\ ow.comparison_count > 2
  /\ ow.vibe[1] # 0
  /\ \E a \in ObsAgents :
       /\ ow.token_stats[a].tokens_dropped > 0
       /\ ow.observations[a][ow.num_observation_tokens][1] < GLOBAL_LOCATION

(***************************************************************************)
(* Determinism.  Two engine instances are built from the same seed, the    *)
(* same GameConfig and the same map, and are stepped with the same action  *)
(* vectors.  The instances differ in nothing but the addresses their       *)
(* objects were allocated at (the layout).  The map is the row of the      *)
(* query model: objects 1 and 2 are agents, the other objects are not.     *)
(* Action 0 is the noop; action 1 adds the candidates' tag to the agent    *)
(* and recomputes the materialized tag (priority 1); action 2 removes the  *)
(* candidates' tag and recomputes (priority 0).  An observation holds the  *)
(* tag tokens of every object of the row; the agents' reward entry reads   *)
(* the count of the materialized tag.                                      *)
(***************************************************************************)
DetMaxTicks == 2

det_action_handlers == << [name |-> "noop", priority |-> 0],
                          [name |-> "join", priority |-> 1],
                          [name |-> "leave", priority |-> 0] >>

\* Action::handle: the handler's mutations, an AddTagMutation or a
\* RemoveTagMutation on the actor followed by a
\* RecomputeMaterializedQueryMutation
det_handle(W, name, agent) ==
  CASE name = "join" ->
         [recompute(add_tag(W, agent, TeamTag, EngineCtx), ConnTag, EngineCtx)
            EXCEPT !.action_success[agent] = TRUE]
    [] name = "leave" ->
         [recompute(remove_tag(W, agent, TeamTag, EngineCtx), ConnTag, EngineCtx)
            EXCEPT !.action_success[agent] = TRUE]
    [] OTHER -> [W EXCEPT !.action_success[agent] = TRUE]

\* the body of the action loop for one agent at one priority level
det_step_action(W, agent_idx, actions, current_priority) ==
  LET action_idx == actions[agent_idx]
  IN  IF action_idx < 0 \/ action_idx >= Len(det_action_handlers) THEN W
      ELSE IF det_action_handlers[action_idx + 1].priority # current_priority THEN W
      ELSE LET W1 == det_handle(W, det_action_handlers[action_idx + 1].name, agent_idx)
           IN  IF W1.action_success[agent_idx]
               THEN [W1 EXCEPT !.executed_actions[agent_idx] = action_idx]
               ELSE W1

RECURSIVE det_step_actions(_, _, _, _, _)
det_step_actions(W, agent_indices, actions, offset, i) ==
  IF offset > max_action_priority THEN W
  ELSE IF i > Len(agent_indices)
  THEN det_step_actions(W, agent_indices, actions, offset + 1, 1)
  ELSE det_step_actions(det_step_action(W, agent_indices[i], actions, max_action_priority - offset),
                        agent_indices, actions, offset, i + 1)

\* the window scan of the encoder: the tag tokens of the objects of the row,
\* each at its object's column
RECURSIVE det_cells(_, _, _)
det_cells(W, row, o) ==
  IF o > NumQObjs THEN row
  ELSE det_cells(W, row \o located(tag_features(<<>>, W.bits[o], 0), o), o + 1)

det_compute_observations(W) ==
  [W EXCEPT !.observations = [a \in StepAgents |-> det_cells(W, <<>>, 1)]]

\* RewardHelper::compute_entries for one entry that reads the TagCountValue
\* of the materialized tag
det_compute_entries(W, agent) ==
  LET val == count_ptr_value(W, ConnTag) * RewardWeight
      total_delta == val - W.prev_value[agent]
  IN  [W EXCEPT !.prev_value[agent] = val,
                !.rewards[agent] = IF total_delta # 0 THEN @ + total_delta ELSE @]

det_compute_rewards(W) ==
  update_episode_rewards(det_compute_entries(det_compute_entries(W, 1), 2))

\* MettaGrid::_step
det_step(W, actions) ==
  LET W1 == [W EXCEPT !.rewards = [i \in StepAgents |-> 0],
                      !.action_success = [i \in StepAgents |-> FALSE],
                      !.executed_actions = [i \in StepAgents |-> 0],
                      !.current_step = @ + 1,
                      !.fired = <<>>,
                      !.rng = rng_after_shuffle(<<1, 2>>, W.rng)]
      W2 == det_step_actions(W1, shuffle(<<1, 2>>, W.rng), actions, 0, 1)
  IN  step_truncation(det_compute_rewards(det_compute_observations(W2)))

\* the engine after construction: the query world with the tick's buffers,
\* the materialized tags computed, the first observations written
DetWorld0(layout, edge, max_items, order_by, hcfg, episode_truncates) ==
  det_compute_observations(
    compute_all(
      QWorld0(layout, edge, max_items, order_by, hcfg)
        @@ [current_step |-> 0,
            max_steps |-> DetMaxTicks,
            episode_truncates |-> episode_truncates,
            observations |-> [i \in StepAgents |-> <<>>],
            rewards |-> [i \in StepAgents |-> 0],
            episode_rewards |-> [i \in StepAgents |-> 0],
            prev_value |-> [i \in StepAgents |-> 0],
            action_success |-> [i \in StepAgents |-> FALSE],
            executed_actions |-> [i \in StepAgents |-> 0],
            terminals |-> [i \in StepAgents |-> FALSE],
            truncations |-> [i \in StepAgents |-> FALSE]],
      EngineCtx))

DetInstances == {"a", "b"}

\* both instances get the same seed, config and map; each gets its own
\* address layout
DetInit ==
  /\ \E layout \in [DetInstances -> {"asc", "desc"}],
        edge \in {"none", "adjacent"}, max_items \in 0..MaxItems,
        order_by \in {"none", "random"}, hcfg \in {"log", "cascade"},
        episode_truncates \in BOOLEAN :
       dw = [i \in DetInstances |->
               DetWorld0(layout[i], edge, max_items, order_by, hcfg, episode_truncates)]
  /\ tw = "idle" /\ th = "idle" /\ qw = "idle" /\ qh = "idle"
  /\ aw = "idle" /\ sw = "idle" /\ ow = "idle"
  /\ hw = "idle"

\* one call of step() on each instance with the same action vector
DetStep(actions) ==
  /\ dw["a"].current_step < DetMaxTicks
  /\ dw' = [i \in DetInstances |-> det_step(dw[i], actions)]
  /\ UNCHANGED notDetVars

DetNext == \E actions \in [StepAgents -> 0..2] : DetStep(actions)

SpecDet == DetInit /\ [][DetNext]_vars

\* what the caller of step() reads from an instance
DetBuffers(W) == <<W.observations, W.rewards, W.terminals, W.truncations>>

\* C7 as stated: after every step, two instances built with the same seed,
\* config and map and stepped with the same action vectors hold identical
\* observation buffers, reward buffers, terminals and truncations.
C7_SameInputsSameBuffers ==
  dw["a"].current_step >= 1 => DetBuffers(dw["a"]) = DetBuffers(dw["b"])

(***************************************************************************)
(* Further properties of the tag lifecycle, stated on the last call        *)
(* (th.last), the state before it and the handlers it fired.               *)
(***************************************************************************)
LastChanged ==
  \/ th.last.call = "add" /\ th.last.t \in Tags /\ th.last.t \notin th.last.before.bits[th.last.o]
  \/ th.last.call = "remove" /\ th.last.t \in th.last.before.bits[th.last.o]

LastRepeated ==
  \/ th.last.call = "add" /\ th.last.t \in th.last.before.bits[th.last.o]
  \/ th.last.call = "remove" /\ th.last.t \notin th.last.before.bits[th.last.o]

\* the handlers the object of the last call has registered for the call's tag
LastRegistered ==
  IF th.last.call = "add" THEN on_tag_add_cfg(tw, th.last.o, th.last.t)
  ELSE on_tag_remove_cfg(tw, th.last.o, th.last.t)

\* C11: an add_tag of a tag the object already holds, and a remove_tag of a
\* tag it does not hold, leave tag bits, TagIndex lists and counts and the
\* inventories as they were and fire no lifecycle handler.
C11_RepeatedCallsAreNoOps ==
  LastRepeated => (Snapshot(tw) = th.last.before /\ tw.fired = <<>>)

\* a repeated add_tag, with handlers enabled, on the object that carries
\* handlers, whose first add_tag has changed the inventory
C11_Witness ==
  /\ th.last.call = "add" /\ LastRepeated
  /\ th.last.o = 1 /\ ~th.last.ctx.skip_on_update_trigger
  /\ on_tag_add_cfg(tw, 1, th.last.t) # <<>>
  /\ tw.inv[1][0] > 1

\* C12: the call runs each handler the object has registered for its tag once
\* if it changed the tag bit and skip_on_update_trigger is false, and none
\* otherwise; the first handler that runs is one registered for the call's
\* tag, and a handler of another tag runs only for a tag bit that a handler's
\* own mutation changed; with the flag set, the bit and the TagIndex are
\* updated and no handler runs.
C12_HandlersRunOnceOnChange ==
  th.last.call \in {"add", "remove"} =>
    LET kind == <<th.last.call, th.last.t>>
        o == th.last.o
        runs == LastChanged /\ ~th.last.ctx.skip_on_update_trigger
    IN  /\ FiredCount(tw, kind, o) = (IF runs THEN Len(LastRegistered) ELSE 0)
        /\ ~runs => tw.fired = <<>>
        /\ tw.fired # <<>> => tw.fired[1] = <<kind, o>>
        /\ \A i \in 1..Len(tw.fired) :
             LET k == tw.fired[i][1]
                 e == tw.fired[i][2]
             IN  (k[2] \in th.last.before.bits[e]) # (k[2] \in tw.bits[e])
        /\ (LastChanged /\ th.last.ctx.skip_on_update_trigger) =>
             /\ (th.last.t \in tw.bits[o]) <=> (th.last.call = "add")
             /\ (o \in Range(get_objects_with_tag(tw, th.last.t))) <=> (th.last.call = "add")
             /\ tw.counts[th.last.t]
                  = th.last.before.counts[th.last.t] + (IF th.last.call = "add" THEN 1 ELSE -1)

\* an add_tag that ran the handler of its tag, whose mutation added a second
\* tag and so ran that tag's handler
C12_Witness ==
  /\ th.last.call = "add" /\ LastChanged
  /\ ~th.last.ctx.skip_on_update_trigger
  /\ Len(tw.fired) = 2
  /\ tw.fired[1] = <<<<"add", th.last.t>>, th.last.o>>

\* C20 as stated: the context handed to a lifecycle handler carries the same
\* game_stats, tag_index, grid, collectives, query_system and rng as the
\* context passed to add_tag / remove_tag, with actor = target = the object
\* whose tag changed.
C20_HandlerCtxCarriesOuterPointers ==
  \A i \in 1..Len(tw.handler_ctxs) :
    LET h == tw.handler_ctxs[i]
    IN  /\ h.game_stats = th.last.ctx.game_stats
        /\ h.has_tag_index = th.last.ctx.has_tag_index
        /\ h.grid = th.last.ctx.grid
        /\ h.collectives = th.last.ctx.collectives
        /\ h.query_system = th.last.ctx.query_system
        /\ h.rng = th.last.ctx.rng
        /\ h.actor = tw.fired[i][2]
        /\ h.target = tw.fired[i][2]

(***************************************************************************)
(* Further properties of the query system.                                 *)
(***************************************************************************)
\* C13 as stated: a recompute of the materialized tag whose closure query has
\* no edge filters evaluates the query to exactly the objects of its source
\* query, and only those hold the tag afterwards.
C13_EmptyEdgeFiltersKeepSeeds ==
  (qh.phase \in {"once", "twice"} /\ qw.edge = "none") =>
    /\ qh.S_new = Range(get_objects_with_tag(qw, SeedTag))
    /\ Range(get_objects_with_tag(qw, ConnTag)) = Range(get_objects_with_tag(qw, SeedTag))

(***************************************************************************)
(* Registration of static AOEs.  The healer stands on any free cell and    *)
(* its two AOEs have any radius from 0 to FixedRadius; the tick is the one *)
(* of the AOE model.                                                       *)
(***************************************************************************)
RegCells ==
  {cell \in AoeCells : \A o \in AoeObjs \ {Healer} : AoeWorld0(FALSE, "clamped", HpStart).loc[o] # cell}

RegWorld0(territory, radius, cell) ==
  [AoeWorld0(territory, "clamped", HpStart)
     EXCEPT !.radius["heal"] = radius, !.radius["claim"] = radius, !.loc[Healer] = cell]

RegInit ==
  /\ \E territory \in BOOLEAN, radius \in 0..FixedRadius, cell \in RegCells :
       aw = register_each(RegWorld0(territory, radius, cell), CoreSources, 1)
  /\ tw = "idle" /\ th = "idle" /\ qw = "idle" /\ qh = "idle"
  /\ sw = "idle" /\ ow = "idle" /\ dw = "idle"
  /\ hw = "idle"

SpecReg == RegInit /\ [][AoeNext]_vars

\* how often a source is listed in a cell
Listed(W, s, cell) ==
  Cardinality({i \in 1..Len(W.cell_effects[cell]) : W.cell_effects[cell][i] = s})

\* C14: a registered static source is listed, once, in exactly the cells of
\* the grid within its radius (squared distance at most radius squared); with
\* radius 0 that is its own cell only, and no agent off that cell is inside
\* the source.
C14_RegisteredWithinRadius ==
  \A s \in Range(aw.fixed_sources) :
    LET cfg == aoe_config(aw, s)
        source_loc == aw.loc[cfg.source]
    IN  /\ \A cell \in AoeCells :
             Listed(aw, s, cell)
               = (IF distance_sq(source_loc, cell) <= cfg.radius * cfg.radius THEN 1 ELSE 0)
        /\ cfg.radius = 0 =>
             /\ \A cell \in AoeCells : (Listed(aw, s, cell) = 1) <=> (cell = source_loc)
             /\ \A a \in Range(AoeAgents) : a \in aw.inside[s] => aw.loc[a] = source_loc
        /\ \A a \in Range(AoeAgents) :
             a \in aw.inside[s] => Listed(aw, s, aw.loc[a]) = 1

\* a tick in which an agent stood next to a healer of radius 0 and was not
\* healed while the turret's AOE was applied
C14_Witness ==
  /\ aw.ticked
  /\ aw.radius["heal"] = 0
  /\ \E a \in Range(AoeAgents) :
       /\ distance_sq(aw.loc[a], aw.loc[Healer]) = 1
       /\ a \notin aw.inside["heal"]
       /\ aw.inv[a]["hp"] = aw.before[a]["hp"]
  /\ \E a \in Range(AoeAgents) : a \in aw.inside["dmg"]

(***************************************************************************)
(* The deferred-delta accumulator.  A caller attaches the accumulator to   *)
(* the context (as apply_fixed does), ResourceDelta mutations are applied  *)
(* with the turret as actor and the first agent as target, and the caller  *)
(* applies the net deltas and detaches.  The shield is a modifier item.    *)
(* At most MaxMutations mutations are applied while it is attached.        *)
(***************************************************************************)
MaxMutations == 2

DeltaInputs == {-1, 2}

\* the last mutation, whether the accumulator was attached, and what the
\* accumulator held before it
NoMutation ==
  [entity |-> "none", resource_id |-> "hp", delta |-> 0, attached |-> FALSE,
   deferred_deltas |-> [item \in AoeItems |-> 0], deferred_order |-> <<>>]

DeltaWorld0(report) ==
  [attached |-> FALSE, applied |-> 0, last |-> NoMutation]
    @@ [AoeWorld0(FALSE, report, HpStart) EXCEPT !.modifiers = {"shield"}]

DeltaCtx(W) ==
  [EngineCtx EXCEPT !.actor = Turret, !.target = AgentA, !.deferred = W.attached]

DeltaInit ==
  /\ \E report \in {"clamped", "requested"} : aw = DeltaWorld0(report)
  /\ tw = "idle" /\ th = "idle" /\ qw = "idle" /\ qh = "idle"
  /\ sw = "idle" /\ ow = "idle" /\ dw = "idle"
  /\ hw = "idle"

\* what a world that keeps the account of a pass notes when the accumulator
\* is attached, when a mutation is applied and when the net deltas are about
\* to be applied: the target's amounts at the start, the sum of the deltas
\* the mutations asked of each of the target's resources that is no modifier,
\* the order in which those resources were first named, and the inventory
\* updates made since
Started(W) ==
  IF "start" \in DOMAIN W
  THEN [W EXCEPT !.start = W.inv[AgentA], !.asked = [item \in AoeItems |-> 0],
                 !.touched = <<>>, !.updates = <<>>, !.flushed = FALSE]
  ELSE W

Asked(W, entity, item, delta) ==
  IF "asked" \in DOMAIN W /\ entity = "target" /\ item \notin W.modifiers
  THEN [W EXCEPT !.asked[item] = @ + delta,
                 !.touched = IF item \in Range(@) THEN @ ELSE Append(@, item)]
  ELSE W

Flushing(W) ==
  IF "flushed" \in DOMAIN W THEN [W EXCEPT !.updates = <<>>, !.flushed = TRUE] ELSE W

\* the caller attaches an empty accumulator
DeltaAttach ==
  /\ ~aw.attached
  /\ aw' = [NoDeferred(Started(aw)) EXCEPT !.attached = TRUE, !.applied = 0,
                                           !.last = NoMutation, !.before = aw.inv]
  /\ UNCHANGED notAoeVars

\* mutation.apply(ctx)
DeltaMutate(entity, item, delta) ==
  /\ aw.attached /\ aw.applied < MaxMutations
  /\ aw' = [ResourceDeltaMutation_apply(
              [Asked(aw, entity, item, delta) EXCEPT !.before = aw.inv,
                         !.gained = [a \in AoeObjs |-> [i \in AoeItems |-> 0]],
                         !.lost = [a \in AoeObjs |-> [i \in AoeItems |-> 0]]],
              DeltaMut(entity, item, delta), DeltaCtx(aw))
              EXCEPT !.applied = @ + 1,
                     !.last = [entity |-> entity, resource_id |-> item, delta |-> delta,
                               attached |-> aw.attached,
                               deferred_deltas |-> aw.deferred_deltas,
                               deferred_order |-> aw.deferred_order]]
  /\ UNCHANGED notAoeVars

\* the caller applies the net deltas to the target and detaches
DeltaFlush ==
  /\ aw.attached
  /\ aw' = [NoDeferred(apply_deferred([Flushing(aw) EXCEPT !.before = aw.inv],
                                      aw.deferred_order, 1, AgentA))
              EXCEPT !.attached = FALSE, !.applied = 0, !.last = NoMutation]
  /\ UNCHANGED notAoeVars

DeltaNext ==
  \/ DeltaAttach
  \/ \E entity \in {"actor", "target"}, item \in AoeItems, delta \in DeltaInputs :
       DeltaMutate(entity, item, delta)
  \/ DeltaFlush

SpecDelta == DeltaInit /\ [][DeltaNext]_vars

\* C15: with the accumulator attached, a ResourceDelta mutation on the target
\* and a non-modifier resource is added to the accumulator and leaves every
\* inventory as it was; a mutation on a modifier resource or on the actor
\* leaves the accumulator as it was and changes the entity's inventory at once.
C15_DeferredIffTargetAndNonModifier ==
  (aw.last.entity # "none" /\ aw.last.attached) =>
    LET item == aw.last.resource_id
        e == IF aw.last.entity = "actor" THEN Turret ELSE AgentA
    IN  IF aw.last.entity = "target" /\ ~is_modifier(aw, item)
        THEN /\ aw.inv = aw.before
             /\ aw.deferred_deltas
                  = [aw.last.deferred_deltas EXCEPT ![item] = @ + aw.last.delta]
             /\ item \in Range(aw.deferred_order)
        ELSE /\ aw.deferred_deltas = aw.last.deferred_deltas
             /\ aw.deferred_order = aw.last.deferred_order
             /\ aw.inv = [aw.before EXCEPT ![e][item] =
                            Inventory_update(@, aw.last.delta, aw.limits[item])]

\* a delta on the modifier resource of the target changed its inventory at
\* once while a delta on its hit points waited in the accumulator
C15_Witness ==
  /\ aw.last.attached /\ aw.last.entity = "target"
  /\ is_modifier(aw, aw.last.resource_id)
  /\ aw.inv # aw.before
  /\ aw.deferred_order # <<>>
  /\ aw.deferred_deltas["hp"] # 0

(***************************************************************************)
(* Further properties of the observation encoders.                         *)
(***************************************************************************)
\* a buffer no observation of the model fills
UnboundedTokens == 16 * MaxTokens

\* the number of tokens the agent's observation gets in such a buffer
TokensNeeded(a) ==
  compute_observation_original(
    [ow EXCEPT !.num_observation_tokens = UnboundedTokens,
               !.observations[a] = EmptyRow(UnboundedTokens)],
    a, ow.executed_actions[a]).token_stats[a].tokens_written

\* C16 as stated: when an agent's observation needs more than
\* num_observation_tokens tokens, exactly that many are written and
\* tokens_dropped is the number needed minus the number written; when it
\* needs fewer, every slot behind the tokens holds the empty token (0xFF).
C16_DroppedCountsEveryToken ==
  \A a \in ObsAgents :
    LET N == ow.num_observation_tokens
        st == ow.token_stats[a]
    IN  /\ TokensNeeded(a) > N =>
             /\ st.tokens_written = N
             /\ \A i \in 1..N : ow.observations[a][i] # EmptyToken
             /\ st.tokens_dropped = TokensNeeded(a) - st.tokens_written
        /\ TokensNeeded(a) < N =>
             \A i \in (TokensNeeded(a) + 1)..N : ow.observations[a][i] = EmptyToken

(***************************************************************************)
(* Further properties of the engine tick.                                  *)
(***************************************************************************)
\* C17 as stated: a step in which an agent's action id is outside the action
\* table (the only steps that change its action.invalid_index stat) adds one
\* to that stat, leaves what the agent holds as it was, leaves its
\* action_success false and its executed action the noop.
C17_InvalidActionRecordedOnce ==
  [][\A i \in StepAgents :
       sw'.invalid_index[i] # sw.invalid_index[i] =>
         /\ sw'.invalid_index[i] = sw.invalid_index[i] + 1
         /\ sw'.amount[i] = sw.amount[i]
         /\ ~sw'.action_success[i]
         /\ sw'.executed_actions[i] = 0]_vars

\* C18: after a step with max_steps = 0 or current_step < max_steps, terminals
\* and truncations are false for every agent; after a step with max_steps > 0
\* and current_step >= max_steps, truncations is true for every agent and
\* terminals false for every agent if episode_truncates is configured, and
\* the other way round if it is not.
C18_FlagsFollowMaxSteps ==
  sw.current_step >= 1 =>
    IF sw.max_steps = 0 \/ sw.current_step < sw.max_steps
    THEN \A i \in StepAgents : ~sw.terminals[i] /\ ~sw.truncations[i]
    ELSE \A i \in StepAgents :
           /\ sw.truncations[i] = sw.episode_truncates
           /\ sw.terminals[i] = ~sw.episode_truncates

\* the step that reaches max_steps, in an episode configured to truncate
C18_Witness ==
  /\ sw.max_steps > 0 /\ sw.current_step = sw.max_steps
  /\ sw.episode_truncates
  /\ \A i \in StepAgents : sw.truncations[i] /\ ~sw.terminals[i]

MaxHandlers == 2

HObjs == {1, 2}

HTags == {0, 1}

Handler(name, filters, mutations) ==
  [name |-> name, filters |-> filters, mutations |-> mutations]

\* the handlers a dispatch may hold
HandlerCatalog ==
  << Handler(1, << TagFilter("target", 0) >>,
                << DeltaMut("target", 0, 1), RemoveTagMut("target", 0) >>),
     Handler(2, <<>>, << AddTagMut("target", 1) >>),
     Handler(3, << TagFilter("target", 1), TagFilter("actor", 0) >>,
                << DeltaMut("actor", 0, -1), AddTagMut("target", 0) >>),
     Handler(4, << TagFilter("actor", 1) >>, <<>>) >>

HandlerCtx(actor, target) == [TagCtx(actor, FALSE, TRUE) EXCEPT !.target = target]

\* Handler::check_filters
check_filters(W, h, ctx) ==
  \A i \in 1..Len(h.filters) : passes(W, h.filters[i], ctx)

\* variant of check_filters that stops after the first filter
check_filters_first_only(W, h, ctx) ==
  h.filters = <<>> \/ passes(W, h.filters[1], ctx)

\* for (auto& mutation : _mutations) mutation->apply(ctx);
RECURSIVE apply_each_mutation(_, _, _, _)
apply_each_mutation(W, h, i, ctx) ==
  IF i > Len(h.mutations) THEN W
  ELSE LET W1 == ApplyMutations(W, << h.mutations[i] >>, 1, ctx)
       IN  apply_each_mutation([W1 EXCEPT !.applied = Append(@, <<h.name, i>>)],
                               h, i + 1, ctx)

\* variant of Handler::try_apply that reads only the first filter
Handler_try_apply_first_filter(W, h, ctx) ==
  LET W0 == [W EXCEPT !.checked = Append(@, h.name),
                      !.reached = Append(@, Snapshot(W))]
  IN  IF ~check_filters_first_only(W0, h, ctx)
      THEN [W |-> [W0 EXCEPT !.returned = Append(@, FALSE)], ret |-> FALSE]
      ELSE [W |-> [apply_each_mutation(W0, h, 1, ctx) EXCEPT !.returned = Append(@, TRUE)],
            ret |-> TRUE]

\* Handler::try_apply(ctx): the world after the call and the value returned
Handler_try_apply(W, h, ctx) ==
  LET W0 == [W EXCEPT !.checked = Append(@, h.name),
                      !.reached = Append(@, Snapshot(W))]
  IN  IF ~check_filters(W0, h, ctx)
      THEN [W |-> [W0 EXCEPT !.returned = Append(@, FALSE)], ret |-> FALSE]
      ELSE [W |-> [apply_each_mutation(W0, h, 1, ctx) EXCEPT !.returned = Append(@, TRUE)],
            ret |-> TRUE]

RECURSIVE MultiHandler_never_stops(_, _, _, _, _, _)
RECURSIVE MultiHandler_stops_on_failure(_, _, _, _, _, _)
RECURSIVE MultiHandler_try_apply(_, _, _, _, _, _)

\* variant of MultiHandler::try_apply without the FirstMatch return
MultiHandler_never_stops(W, handlers, mode, i, any_applied, ctx) ==
  IF i > Len(handlers) THEN [W |-> W, ret |-> any_applied]
  ELSE LET r == Handler_try_apply(W, handlers[i], ctx)
       IN  MultiHandler_never_stops(r.W, handlers, mode, i + 1, any_applied \/ r.ret, ctx)

\* variant of MultiHandler::try_apply that returns at the first handler
\* whose filters fail
MultiHandler_stops_on_failure(W, handlers, mode, i, any_applied, ctx) ==
  IF i > Len(handlers) THEN [W |-> W, ret |-> any_applied]
  ELSE LET r == Handler_try_apply(W, handlers[i], ctx)
       IN  IF r.ret
           THEN IF mode = "FirstMatch" THEN [W |-> r.W, ret |-> TRUE]
                ELSE MultiHandler_stops_on_failure(r.W, handlers, mode, i + 1, TRUE, ctx)
           ELSE [W |-> r.W, ret |-> any_applied]

\* MultiHandler::try_apply(ctx), from the i-th handler on
MultiHandler_try_apply(W, handlers, mode, i, any_applied, ctx) ==
  IF i > Len(handlers) THEN [W |-> W, ret |-> any_applied]
  ELSE LET r == Handler_try_apply(W, handlers[i], ctx)
       IN  IF r.ret
           THEN IF mode = "FirstMatch" THEN [W |-> r.W, ret |-> TRUE]
                ELSE MultiHandler_try_apply(r.W, handlers, mode, i + 1, TRUE, ctx)
           ELSE MultiHandler_try_apply(r.W, handlers, mode, i + 1, any_applied, ctx)

\* Agent::apply_on_tick: every handler of _on_tick, results ignored
RECURSIVE Agent_apply_on_tick(_, _, _, _)
Agent_apply_on_tick(W, on_tick, i, ctx) ==
  IF i > Len(on_tick) THEN W
  ELSE Agent_apply_on_tick(Handler_try_apply(W, on_tick[i], ctx).W, on_tick, i + 1, ctx)

\* the TagIndex list of tag t for the tag bits b: holders in id order
HolderList(b, t) ==
  LET first == IF t \in b[1] THEN << 1 >> ELSE <<>>
  IN  IF t \in b[2] THEN Append(first, 2) ELSE first

NoDispatch ==
  [call |-> "none", handlers |-> <<>>, mode |-> "All", ctx |-> NullCtx, ret |-> FALSE,
   before |-> [bits |-> [o \in HObjs |-> {}], objects |-> [t \in HTags |-> <<>>],
               counts |-> [t \in HTags |-> 0], inv |-> [o \in HObjs |-> [item \in {0} |-> 1]]]]

HWorld0(b, ids, mode) ==
  [handlers |-> ids, mode |-> mode,
   bits |-> b,
   objects |-> [t \in HTags |-> HolderList(b, t)],
   counts |-> [t \in HTags |-> Len(HolderList(b, t))],
   inv |-> [o \in HObjs |-> [item \in {0} |-> 1]],
   limits |-> [item \in {0} |-> InvLimit],
   fired |-> <<>>,
   hcfg |-> "aoe",
   checked |-> <<>>, returned |-> <<>>, reached |-> <<>>, applied |-> <<>>,
   last |-> NoDispatch]

\* the world at the start of a dispatch: the logs are empty
Fresh(W) ==
  [W EXCEPT !.checked = <<>>, !.returned = <<>>, !.reached = <<>>, !.applied = <<>>]

Dispatch(call, ids, mode, ctx, ret, W) ==
  [call |-> call, handlers |-> ids, mode |-> mode, ctx |-> ctx, ret |-> ret,
   before |-> Snapshot(W)]

HandlerLists ==
  UNION { [1..n -> DOMAIN HandlerCatalog] : n \in 0..MaxHandlers }

Handlers(ids) == [k \in DOMAIN ids |-> HandlerCatalog[ids[k]]]

HandlerInit ==
  /\ \E b \in [HObjs -> SUBSET HTags], ids \in HandlerLists, mode \in {"FirstMatch", "All"} :
       hw = HWorld0(b, ids, mode)
  /\ tw = "idle" /\ th = "idle" /\ qw = "idle" /\ qh = "idle"
  /\ aw = "idle" /\ sw = "idle" /\ ow = "idle" /\ dw = "idle"

\* handler->try_apply(ctx) on the k-th handler alone
HTryApply(k, actor, target) ==
  /\ hw' = LET ctx == HandlerCtx(actor, target)
               id == hw.handlers[k]
               r == Handler_try_apply(Fresh(hw), HandlerCatalog[id], ctx)
           IN  [r.W EXCEPT !.last = Dispatch("handler", << id >>, "All", ctx, r.ret, hw)]
  /\ UNCHANGED notHandlerVars

\* multi.try_apply(ctx)
HMultiApply(actor, target) ==
  /\ hw' = LET ctx == HandlerCtx(actor, target)
               r == MultiHandler_try_apply(Fresh(hw), Handlers(hw.handlers), hw.mode, 1, FALSE, ctx)
           IN  [r.W EXCEPT !.last = Dispatch("multi", hw.handlers, hw.mode, ctx, r.ret, hw)]
  /\ UNCHANGED notHandlerVars

\* agent->apply_on_tick(ctx), the agent's _on_tick holding the same list
HOnTick(actor) ==
  /\ hw' = LET ctx == HandlerCtx(actor, actor)
               W == Agent_apply_on_tick(Fresh(hw), Handlers(hw.handlers), 1, ctx)
           IN  [W EXCEPT !.last = Dispatch("on_tick", hw.handlers, "All", ctx, FALSE, hw)]
  /\ UNCHANGED notHandlerVars

HandlerNext ==
  \E actor \in HObjs, target \in HObjs :
    \/ \E k \in DOMAIN hw.handlers : HTryApply(k, actor, target)
    \/ HMultiApply(actor, target)
    \/ HOnTick(actor)

SpecHandler == HandlerInit /\ [][HandlerNext]_vars

\* the log entries of handler h's mutations, in list order
MutationsOf(h) == [i \in 1..Len(h.mutations) |-> <<h.name, i>>]

\* C21: Handler::try_apply(ctx) returns true if and only if every filter of
\* the handler passes; when it returns false no mutation has run and the
\* world is unchanged, and when it returns true every mutation has run
\* exactly once, in list order.
C21_TryApplyIffFiltersPass ==
  hw.last.call = "handler" =>
    LET h == HandlerCatalog[hw.last.handlers[1]]
        all_pass == \A i \in 1..Len(h.filters) :
                      passes(hw.last.before, h.filters[i], hw.last.ctx)
    IN  /\ hw.last.ret <=> all_pass
        /\ ~hw.last.ret => (hw.applied = <<>> /\ Snapshot(hw) = hw.last.before)
        /\ hw.last.ret => hw.applied = MutationsOf(h)

\* a handler with two mutations whose filter passed, and one with two
\* filters of which only the first passed
C21_Witness ==
  /\ hw.last.call = "handler"
  /\ \/ hw.last.ret /\ Len(hw.applied) = 2 /\ Snapshot(hw) # hw.last.before
     \/ /\ ~hw.last.ret /\ hw.last.handlers = << 3 >>
        /\ passes(hw.last.before, HandlerCatalog[3].filters[1], hw.last.ctx)

\* whether every filter of h passes in the k-th world the dispatch met
PassedWhenReached(h, k) ==
  \A i \in 1..Len(h.filters) : passes(hw.reached[k], h.filters[i], hw.last.ctx)

\* C22: a MultiHandler in FirstMatch mode tries its handlers in list order
\* and returns on the first one that succeeds: handlers after it are neither
\* filter-checked nor applied, at most one handler's mutations run, and the
\* call returns true if and only if some handler succeeded.
C22_FirstMatchStopsAtFirstSuccess ==
  (hw.last.call = "multi" /\ hw.last.mode = "FirstMatch") =>
    LET hs == Handlers(hw.last.handlers)
        n == Len(hw.checked)
    IN  /\ n <= Len(hs)
        /\ hw.checked = [k \in 1..n |-> hs[k].name]
        /\ \A k \in 1..n : hw.returned[k] <=> PassedWhenReached(hs[k], k)
        /\ \A k \in 1..(n - 1) : ~hw.returned[k]
        /\ hw.last.ret <=> \E k \in 1..n : hw.returned[k]
        /\ hw.last.ret => hw.applied = MutationsOf(hs[n])
        /\ ~hw.last.ret => (n = Len(hs) /\ hw.applied = <<>>)

\* the first of two handlers succeeded and the second, whose filters pass in
\* the world the call left, was not tried
C22_Witness ==
  /\ hw.last.call = "multi" /\ hw.last.mode = "FirstMatch"
  /\ hw.last.ret
  /\ Len(hw.last.handlers) = 2 /\ Len(hw.checked) = 1
  /\ hw.applied # <<>>
  /\ \A i \in 1..Len(HandlerCatalog[hw.last.handlers[2]].filters) :
       passes(hw, HandlerCatalog[hw.last.handlers[2]].filters[i], hw.last.ctx)

\* the mutation log of the handlers that returned true, in list order
RECURSIVE AppliedBy(_, _, _)
AppliedBy(hs, returned, k) ==
  IF k > Len(hs) THEN <<>>
  ELSE (IF returned[k] THEN MutationsOf(hs[k]) ELSE <<>>) \o AppliedBy(hs, returned, k + 1)

\* C23: a MultiHandler in All mode (and an agent's on_tick list) applies, in
\* list order, every handler whose filters pass when that handler is reached
\* and skips only those whose filters fail; the MultiHandler returns true if
\* and only if at least one handler applied.
C23_AllAppliesEveryPassingHandler ==
  (hw.last.call \in {"multi", "on_tick"} /\ hw.last.mode = "All") =>
    LET hs == Handlers(hw.last.handlers)
    IN  /\ hw.checked = [k \in 1..Len(hs) |-> hs[k].name]
        /\ Len(hw.returned) = Len(hs)
        /\ \A k \in 1..Len(hs) : hw.returned[k] <=> PassedWhenReached(hs[k], k)
        /\ hw.applied = AppliedBy(hs, hw.returned, 1)
        /\ hw.last.call = "multi" =>
             (hw.last.ret <=> \E k \in 1..Len(hs) : hw.returned[k])

\* the first handler failed and the second applied; or both applied and the
\* second passes only because of what the first one did
C23_Witness ==
  /\ hw.last.call = "multi" /\ hw.last.mode = "All"
  /\ Len(hw.last.handlers) = 2
  /\ \/ hw.returned = << FALSE, TRUE >> /\ hw.applied # <<>>
     \/ /\ hw.returned = << TRUE, TRUE >>
        /\ \E i \in 1..Len(HandlerCatalog[hw.last.handlers[2]].filters) :
             ~passes(hw.last.before, HandlerCatalog[hw.last.handlers[2]].filters[i], hw.last.ctx)

\* the positions of the trace at which the materialized tag's bit changed
\* by event ev, and the positions of the handler log at which a handler of
\* the given kind ran for the materialized tag
At(ev) == {i \in DOMAIN qw.trace : qw.trace[i].ev = ev /\ qw.trace[i].t = ConnTag}

FiredAt(kind) == {i \in DOMAIN qw.fired : qw.fired[i][1] = <<kind, ConnTag>>}

Before(A, B) == \A i \in A, j \in B : i < j

\* C24: within one recompute of the materialized tag every removal of the tag
\* from a previous holder happens before any addition to a new holder, no
\* lifecycle handler has run when the membership is final (the two phases
\* fire none: only net losers and net gainers get a handler), and all
\* remove-handlers run before any add-handler.
C24_RemovalsAdditionsThenHandlers ==
  qh.phase \in {"once", "twice"} =>
    /\ Before(At("remove_tag"), At("add_tag"))
    /\ qw.snap.fired = <<>>
    /\ Before(FiredAt("remove"), FiredAt("add"))
    /\ \A i \in FiredAt("remove") : qw.fired[i][2] \in qh.S_old \ qh.S_new
    /\ \A i \in FiredAt("add") : qw.fired[i][2] \in qh.S_new \ qh.S_old
    /\ {qw.trace[i].o : i \in At("remove_tag")} = qh.S_old
    /\ {qw.trace[i].o : i \in At("add_tag")} = qh.S_new

\* a recompute that removed, added and fired both kinds of handler, with an
\* object that lost the tag and got it back
C24_Witness ==
  /\ qh.phase \in {"once", "twice"}
  /\ At("remove_tag") # {} /\ At("add_tag") # {}
  /\ FiredAt("remove") # {} /\ FiredAt("add") # {}
  /\ qh.S_old \cap qh.S_new # {}

\* C25: right after compute_all, and after recompute has rewritten the
\* membership (before it fires lifecycle handlers), the objects holding the
\* materialized tag are exactly the objects the evaluation of the tag's query
\* returned; every object that held the tag and is not in the result no
\* longer holds it.
C25_MembershipIsQueryResult ==
  qw.snap.tag = ConnTag =>
    /\ qw.snap.after = qw.snap.result
    /\ \A o \in qw.snap.before \ qw.snap.result : o \notin qw.snap.after
    /\ qh.phase = "idle" /\ qw.trace # <<>> /\ qw.fired = <<>> /\ At("remove_tag") = {}
         /\ (\A i \in DOMAIN qw.trace : qw.trace[i].t = ConnTag)
         => Holding(qw, ConnTag) = qw.snap.result
    /\ qh.phase \in {"once", "twice"} =>
         (qw.snap.before = qh.S_old /\ qw.snap.result = qh.S_new)

\* a recompute whose query dropped a previous holder and returned a new one
C25_Witness ==
  /\ qh.phase \in {"once", "twice"}
  /\ qw.snap.tag = ConnTag
  /\ qw.snap.before \ qw.snap.result # {}
  /\ qw.snap.result \ qw.snap.before # {}
  /\ qw.snap.before \cap qw.snap.result # {}

(***************************************************************************)
(* The field: the tracker with every kind of source registered, in one of  *)
(* several registration orders, with the turret either nearer to the       *)
(* agent's row cells than the healer or as far.  Between ticks a transfer  *)
(* may empty a source object, which then leaves the grid, and the tracker  *)
(* may be told to unregister the sources of an object.  After either,      *)
(* presence_log holds the presence-delta applications it made, was_inside  *)
(* the inside sets at its start; exit_causes collects why targets have     *)
(* left sources.                                                           *)
(***************************************************************************)
TurretColumns == {2, GridW - 1}

RegistrationOrders ==
  { <<"heal", "dmg", "claim", "beacon">>,
    <<"beacon", "claim", "dmg", "heal">>,
    <<"dmg", "beacon", "heal", "claim">> }

FieldWorld0(territory, column) ==
  [AoeWorld0(territory, "clamped", HpStart) EXCEPT
     !.loc[Turret] = [r |-> 0, c |-> column],
     !.mobile_sources = AllMobileSources]
  @@ [presence_log |-> <<>>,
      was_inside |-> [s \in AoeSources |-> {}],
      last_removed |-> 0,
      exit_causes |-> {}]

FieldInit ==
  /\ \E territory \in BOOLEAN, column \in TurretColumns, order \in RegistrationOrders :
       aw = register_each(FieldWorld0(territory, column), order, 1)
  /\ tw = "idle" /\ th = "idle" /\ qw = "idle" /\ qh = "idle"
  /\ sw = "idle" /\ ow = "idle" /\ dw = "idle"
  /\ hw = "idle"

FieldTick(dcs) ==
  /\ aw' = aoe_step([aw EXCEPT !.presence_log = <<>>,
                               !.was_inside = [s \in AoeSources |-> {}],
                               !.last_removed = 0], dcs)
  /\ UNCHANGED notAoeVars

\* no object has left the grid and no source has been unregistered; the
\* field follows one departure per episode
Complete(W) ==
  /\ W.removed = {}
  /\ Len(W.fixed_sources) = Len(FixedSources)
  /\ Len(W.mobile_sources) = Len(AllMobileSources)

\* a transfer empties an object that is no agent, and the object leaves the
\* grid
FieldRemove(obj) ==
  /\ Complete(aw)
  /\ aw' = remove_source_when_empty([aw EXCEPT !.presence_log = <<>>,
                                               !.was_inside = aw.inside,
                                               !.last_removed = obj,
                                               !.last_op = "remove"], obj)
  /\ UNCHANGED notAoeVars

\* AOETracker::unregister_source for an object with registered sources
FieldUnregister(obj) ==
  /\ Complete(aw)
  /\ \E s \in Registered(aw) : aoe_config(aw, s).source = obj
  /\ aw' = unregister_source([aw EXCEPT !.presence_log = <<>>,
                                        !.was_inside = aw.inside,
                                        !.last_removed = obj,
                                        !.last_op = "unregister"], obj)
  /\ UNCHANGED notAoeVars

\* the moves of a tick of the field: the first agent walks, the others stay
FieldMoves == {dcs \in [1..Len(AoeAgents) -> {-1, 0, 1}] : \A i \in 2..Len(AoeAgents) : dcs[i] = 0}

FieldNext ==
  \/ \E dcs \in FieldMoves : FieldTick(dcs)
  \/ \E obj \in AoeObjs \ Range(AoeAgents) : FieldRemove(obj)
  \/ \E obj \in AoeObjs : FieldUnregister(obj)

SpecField == FieldInit /\ [][FieldNext]_vars

\* the relation of a source to an agent: "friendly" and "enemy" need both
\* the agent and the source's object to be in a collective
Relation(W, s, a) ==
  IF getCollective(a) < 0 \/ getCollective(aoe_config(W, s).source) < 0 THEN "other"
  ELSE IF getCollective(aoe_config(W, s).source) = getCollective(a) THEN "friendly"
  ELSE "enemy"

\* the registered fixed sources whose disc holds the agent's cell and that
\* stand in the given relation to it, in registration order
OnCell(W, a, relation) ==
  SelectSeq(W.fixed_sources, LAMBDA s :
    /\ in_range(W.loc[aoe_config(W, s).source], W.loc[a], aoe_config(W, s).radius)
    /\ Relation(W, s, a) = relation)

\* C26: after a tick, the fixed sources apply_fixed went through for an
\* agent are the sources registered on the agent's cell, the enemy ones
\* first, then the ones with no collective relation to the agent, then the
\* friendly ones, each group in registration order.
C26_EnemyOtherFriendlyOrder ==
  aw.last_op = "tick" =>
    \A a \in Range(AoeAgents) :
      aw.processed[a] = OnCell(aw, a, "enemy") \o OnCell(aw, a, "other") \o OnCell(aw, a, "friendly")

\* the healer's sources were registered before the turret's and the
\* beacon's, and yet the agent's pass took the turret's first and the
\* healer's two last, in the order of their registration
C26_Witness ==
  /\ aw.last_op = "tick"
  /\ aw.fixed_sources = <<"heal", "dmg", "claim", "beacon">>
  /\ aw.processed[AgentA] = <<"dmg", "beacon", "heal", "claim">>
  /\ Len(aw.processed[AgentB]) >= 1

\* C28: for every source and every agent, the enter applications of the
\* source's presence deltas less the exit applications are 1 when the agent
\* is in the source's inside set and 0 when it is not, and no enter ever
\* followed an enter and no exit came without an enter before it, whatever
\* took the agent out: range, a filter, a lost territory contest or the
\* unregistration of the source.
C28_EnterExitAlternate ==
  /\ ~aw.misapplied
  /\ \A s \in AoeSources, a \in Range(AoeAgents) :
       aw.balance[s][a] = IF a \in aw.inside[s] THEN 1 ELSE 0

\* targets have left sources for each of the four reasons, and an agent is
\* inside a source again
C28_Witness ==
  /\ aw.exit_causes = {"range", "filter", "contest", "unregister"}
  /\ \E s \in AoeSources, a \in Range(AoeAgents) : a \in aw.inside[s] /\ aw.balance[s][a] = 1

\* how often the last removal applied the source's exit deltas to the agent
ExitsLogged(W, s, a) ==
  Cardinality({i \in DOMAIN W.presence_log : W.presence_log[i] = <<s, a, -1>>})

\* the registration of the object named by last_removed is inverted: no
\* cell's effect list, no mobile-source list and no per-object list holds
\* one of its AOEs, its AOEs have empty inside sets and are in no agent's
\* reverse set, and the last operation applied an AOE's exit presence deltas
\* once to each agent that was inside it and to no other agent
Inverted(W) ==
  \A s \in AoeSources :
    aoe_config(W, s).source = W.last_removed =>
      /\ \A cell \in AoeCells : s \notin Range(W.cell_effects[cell])
      /\ s \notin Range(W.mobile_sources)
      /\ s \notin Range(W.fixed_sources)
      /\ W.inside[s] = {}
      /\ \A a \in Range(AoeAgents) :
           /\ s \notin W.target_fixed_inside[a]
           /\ ExitsLogged(W, s, a) = IF a \in W.was_inside[s] THEN 1 ELSE 0

\* C29: right after an object that is an AOE source has left the grid, its
\* registration is inverted: no cell's effect list and no mobile-source list
\* holds one of its AOEs, every agent that was inside one of them has
\* received that AOE's exit presence deltas exactly once, and its AOEs are
\* in no inside set and no reverse set.
C29_RemovalInvertsRegistration ==
  aw.last_op = "remove" => Inverted(aw)

\* AOETracker::unregister_source does invert the registration of the object
\* it is called for, and applies no other presence delta
UnregisterInvertsRegistration ==
  aw.last_op = "unregister" =>
    /\ Inverted(aw)
    /\ \A i \in DOMAIN aw.presence_log :
         /\ aw.presence_log[i][3] = -1
         /\ aoe_config(aw, aw.presence_log[i][1]).source = aw.last_removed

\* the healer was unregistered while the agent was inside its healing AOE,
\* and the agent lost the shield the AOE had given it on entering
UnregisteredWhileInside ==
  /\ aw.last_op = "unregister"
  /\ aw.last_removed = Healer
  /\ aw.presence_log = << <<"heal", AgentA, -1>> >>
  /\ aw.inv[AgentA]["shield"] = 0

\* the healer left the grid, and a tick later the agent is still inside its
\* healing AOE
HealedByRemoved ==
  /\ aw.last_op = "tick"
  /\ Healer \in aw.removed
  /\ "heal" \in Range(aw.cell_effects[aw.loc[AgentA]])
  /\ AgentA \in aw.inside["heal"]

\* the territory AOEs of one side that cover the agent's cell and whose
\* filters passed when the agent's pass began: the tag filters read the tags
\* the agent held at the start of the tick
Contenders(W, a, relation) ==
  {s \in Range(W.fixed_sources) :
     /\ is_territory_aoe(aoe_config(W, s))
     /\ Relation(W, s, a) = relation
     /\ in_range(W.loc[aoe_config(W, s).source], W.loc[a], aoe_config(W, s).radius)
     /\ (aoe_config(W, s).filters = <<>> \/ a \in W.marked_before)}

Reach(W, s, a) == distance_sq(W.loc[aoe_config(W, s).source], W.loc[a])

\* one side has a contender strictly nearer than every contender of the
\* other side
Nearer(W, a, side, other) ==
  \E s \in Contenders(W, a, side) :
    \A e \in Contenders(W, a, other) : Reach(W, s, a) < Reach(W, e, a)

Winner(W, a) ==
  IF Nearer(W, a, "friendly", "enemy") THEN "Friendly"
  ELSE IF Nearer(W, a, "enemy", "friendly") THEN "Enemy"
  ELSE "Neutral"

Affected(W, a, relation) ==
  {s \in Range(W.fixed_sources) :
     is_territory_aoe(aoe_config(W, s)) /\ Relation(W, s, a) = relation /\ a \in W.inside[s]}

EnemyOwnsCell ==
  /\ aw.last_op = "tick"
  /\ Contenders(aw, AgentA, "friendly") # {}
  /\ aw.territory_owner[AgentA] = "Enemy"
  /\ AgentA \in aw.inside["dmg"]

(***************************************************************************)
(* The account of a fixed-AOE pass: the accumulator protocol with the      *)
(* mutations on the target only, in a world where the shield is a modifier *)
(* item and in one where no item is, with the account kept.                *)
(***************************************************************************)
NetWorld0(modifiers) ==
  [DeltaWorld0("clamped") EXCEPT !.modifiers = modifiers]
  @@ [start |-> [item \in AoeItems |-> 0],
      asked |-> [item \in AoeItems |-> 0],
      touched |-> <<>>,
      updates |-> <<>>,
      flushed |-> FALSE]

NetInit ==
  /\ \E modifiers \in {{}, {"shield"}} : aw = NetWorld0(modifiers)
  /\ tw = "idle" /\ th = "idle" /\ qw = "idle" /\ qh = "idle"
  /\ sw = "idle" /\ ow = "idle" /\ dw = "idle"
  /\ hw = "idle"

NetNext ==
  \/ DeltaAttach
  \/ \E item \in AoeItems, delta \in DeltaInputs : DeltaMutate("target", item, delta)
  \/ DeltaFlush

SpecNet == NetInit /\ [][NetNext]_vars

\* the resources first named, without those whose deltas cancelled
NetOrder(W) == SelectSeq(W.touched, LAMBDA item : W.asked[item] # 0)

ShieldUpdatedFirst ==
  /\ aw.flushed
  /\ aw.touched = <<"shield", "hp">>
  /\ Len(aw.updates) = 2

(***************************************************************************)
(* The mask of a territory-style static AOE, over the registrations of     *)
(* SpecReg.                                                                *)
(***************************************************************************)
\* a static AOE that only claims territory
TerritoryStyle(cfg) ==
  is_territory_aoe(cfg) /\ ~has_mutations(cfg) /\ ~has_presence_deltas(cfg)

\* the cells straight above, below, left and right of the source at the
\* distance of the radius
CardinalTips(source_loc, radius) ==
  {cell \in AoeCells :
     \/ cell.c = source_loc.c /\ Abs(cell.r - source_loc.r) = radius
     \/ cell.r = source_loc.r /\ Abs(cell.c - source_loc.c) = radius}

\* C31 as stated: a territory-style static AOE of radius 2 or more is not
\* listed in the four cardinal cells at the distance of its radius, and one
\* of radius 0 or 1 is listed in every cell of the grid within its radius.
C31_CardinalTipsExcluded ==
  \A s \in Range(aw.fixed_sources) :
    LET cfg == aoe_config(aw, s)
        source_loc == aw.loc[cfg.source]
    IN  TerritoryStyle(cfg) =>
          /\ cfg.radius >= 2 =>
               \A cell \in CardinalTips(source_loc, cfg.radius) : Listed(aw, s, cell) = 0
          /\ cfg.radius <= 1 =>
               \A cell \in AoeCells :
                 distance_sq(source_loc, cell) <= cfg.radius * cfg.radius
                   => Listed(aw, s, cell) = 1

\* what register_fixed does: a territory-style AOE is listed in its
\* cardinal tips as in every other cell within the radius
TipsRegistered ==
  \A s \in Range(aw.fixed_sources) :
    LET cfg == aoe_config(aw, s)
    IN  TerritoryStyle(cfg) =>
          \A cell \in CardinalTips(aw.loc[cfg.source], cfg.radius) : Listed(aw, s, cell) = 1

\* an agent standing on the cardinal tip of a territory-style AOE of radius 2
\* was processed for it
TipClaimed ==
  /\ aw.ticked
  /\ aw.radius["claim"] = 2
  /\ \E a \in Range(AoeAgents) :
       /\ aw.loc[a] \in CardinalTips(aw.loc[Healer], 2)
       /\ "claim" \in Range(aw.processed[a])

(***************************************************************************)
(* The closure query on its own.  The objects stand in one row at the      *)
(* columns of a placement; any object may hold the seed tag and the        *)
(* candidates' tag; the query expands through no edge filter, through a    *)
(* distance filter, or through a distance filter and a filter that asks    *)
(* the net member for the candidates' tag.  radius is the value the        *)
(* configuration gives the closure query.                                  *)
(***************************************************************************)
MaxHops == 2

ClosurePlacements == {<<1, 2, 3>>, <<1, 2, 4>>, <<2, 1, 3>>}

closure_edge_filters(edge) ==
  CASE edge = "adjacent" -> << MaxDistanceFilter("target", 1) >>
    [] edge = "relay" -> << MaxDistanceFilter("target", 1), TagFilter("actor", TeamTag) >>
    [] OTHER -> <<>>

closure_query(W) ==
  ClosureQueryConfig(TagQueryConfig(SeedTag, <<>>, 0, "none"),
                     TagQueryConfig(TeamTag, <<>>, 0, "none"),
                     closure_edge_filters(W.edge), <<>>, 0, "none")

\* the objects the breadth-first loop of ClosureQueryConfig::evaluate takes
\* from the frontier, in order
RECURSIVE closure_pops(_, _, _, _, _, _)
closure_pops(W, frontier, visited, candidate_pool, edge_filters, ctx) ==
  IF frontier = <<>> THEN <<>>
  ELSE LET current == Head(frontier)
           reached == SelectSeq(candidate_pool,
                        LAMBDA c : /\ c \notin visited
                                   /\ matches_edge_filters(W, current, c, edge_filters, ctx))
       IN  <<current>> \o closure_pops(W, Tail(frontier) \o reached,
                                       visited \cup Range(reached),
                                       candidate_pool, edge_filters, ctx)

ClosureWorld0(placement, edge, radius, layout) ==
  QWorld0(layout, edge, 0, "none", "log")
    @@ [loc |-> [o \in QObjs |->
                   [r |-> 0, c |-> IF o <= Len(placement) THEN placement[o] ELSE o + 2]],
        radius |-> radius]

NoEval == [phase |-> "idle", result |-> <<>>, popped |-> <<>>]

ClosureInit ==
  /\ \E placement \in ClosurePlacements, edge \in {"none", "adjacent", "relay"},
        radius \in {0, 1, MaxHops}, layout \in {"asc", "desc"} :
       qw = ClosureWorld0(placement, edge, radius, layout)
  /\ qh = NoEval
  /\ tw = "idle" /\ th = "idle" /\ aw = "idle"
  /\ sw = "idle" /\ ow = "idle" /\ dw = "idle"
  /\ hw = "idle"

ClosureTag(o, t) ==
  /\ qw' = add_tag([qw EXCEPT !.fired = <<>>], o, t, EngineCtx)
  /\ qh' = NoEval
  /\ UNCHANGED notQueryVars

ClosureUntag(o, t) ==
  /\ qw' = remove_tag([qw EXCEPT !.fired = <<>>], o, t, EngineCtx)
  /\ qh' = NoEval
  /\ UNCHANGED notQueryVars

\* closure_query->evaluate(ctx)
ClosureEvaluate ==
  LET q == closure_query(qw)
      roots == evaluate(qw, q.source, EngineCtx).result
      pool == evaluate(qw, q.candidates, EngineCtx).result
  IN  /\ qh' = [phase |-> "evaluated",
                result |-> evaluate(qw, q, EngineCtx).result,
                popped |-> closure_pops(qw, roots, Range(roots), pool, q.edge_filters,
                                        EngineCtx)]
      /\ qw' = [qw EXCEPT !.fired = <<>>]
      /\ UNCHANGED notQueryVars

ClosureNext ==
  \/ \E o \in QObjs, t \in {SeedTag, TeamTag} : ClosureTag(o, t)
  \/ \E o \in QObjs, t \in {SeedTag, TeamTag} : ClosureUntag(o, t)
  \/ ClosureEvaluate

SpecClosure == ClosureInit /\ [][ClosureNext]_vars

\* the seeds, the candidate pool, and whether every edge filter passes with
\* the net member as actor and the candidate as target
Seeds(W) == Holding(W, SeedTag)

Pool(W) == Holding(W, TeamTag)

EdgePasses(W, member, candidate) ==
  \A i \in 1..Len(closure_edge_filters(W.edge)) :
    passes(W, closure_edge_filters(W.edge)[i],
           [EngineCtx EXCEPT !.actor = member, !.target = candidate])

\* the objects at most k hops from a seed, and the objects any number of
\* hops from a seed
RECURSIVE WithinHops(_, _)
WithinHops(W, k) ==
  IF k = 0 THEN Seeds(W)
  ELSE LET S == WithinHops(W, k - 1)
       IN  S \cup {c \in Pool(W) : \E m \in S : EdgePasses(W, m, c)}

Reachable(W) == WithinHops(W, Cardinality(QObjs))

\* C32 as stated: an evaluation of the closure query returns only objects at
\* most radius hops from a seed; with radius 0 the depth is not bounded.
C32_DepthBoundedByRadius ==
  qh.phase = "evaluated" =>
    Range(qh.result) \subseteq
      (IF qw.radius = 0 THEN Reachable(qw) ELSE WithinHops(qw, qw.radius))

\* what evaluate does: the result holds every object any number of hops from
\* a seed, whatever the radius
DepthNeverBounded ==
  qh.phase = "evaluated" => Range(qh.result) = Reachable(qw)

\* an evaluation with radius 1 that returned an object two hops from the seed
TwoHopsReturned ==
  /\ qh.phase = "evaluated"
  /\ qw.radius = 1
  /\ qw.edge = "adjacent"
  /\ Range(qh.result) \ WithinHops(qw, 1) # {}

\* C33: with edge filters, no result filter and no limit, an evaluation of
\* the closure query returns exactly the seeds and the candidates that a
\* chain of hops links to a seed, every hop passing all edge filters with the
\* net member as actor and the candidate as target; no object is returned
\* twice, and the loop ends after taking each returned object from the
\* frontier once.
C33_ClosureIsReachableSet ==
  (qh.phase = "evaluated" /\ qw.edge # "none") =>
    /\ Range(qh.result) = Reachable(qw)
    /\ Len(qh.result) = Cardinality(Range(qh.result))
    /\ Range(qh.popped) = Range(qh.result)
    /\ Len(qh.popped) = Cardinality(Range(qh.popped))
    /\ Len(qh.popped) <= Cardinality(QObjs)

\* an evaluation through the asymmetric edge: a seed outside the candidates
\* next to a candidate it did not take in, and a second seed whose net holds
\* an object two hops away
C33_Witness ==
  /\ qh.phase = "evaluated"
  /\ qw.edge = "relay"
  /\ \E seed \in Seeds(qw) \ Pool(qw), c \in Pool(qw) :
       /\ distance_sq(qw.loc[seed], qw.loc[c]) = 1
       /\ c \notin Range(qh.result)
  /\ \E seed \in Seeds(qw), c \in Range(qh.result) :
       distance_sq(qw.loc[seed], qw.loc[c]) > 1

\* an evaluation whose net grew by two hops from one seed
ChainFollowed ==
  /\ qh.phase = "evaluated"
  /\ qw.edge = "adjacent"
  /\ Cardinality(Seeds(qw)) = 1
  /\ Range(qh.result) \ WithinHops(qw, 1) # {}
  /\ Len(qh.result) = Cardinality(QObjs)

(***************************************************************************)
(* The action dispatch of a step.  The engine of the tick model keeps the  *)
(* list of the handler invocations of the last step, the action vector it  *)
(* was given and the state of the generator before the shuffle.            *)
(***************************************************************************)
DispatchWorld0 ==
  StepWorld0(FALSE, FALSE, 0, FALSE)
    @@ [calls |-> <<>>, actions |-> [i \in StepAgents |-> 0], rng0 |-> 0]

DispatchInit ==
  /\ sw = DispatchWorld0
  /\ tw = "idle" /\ th = "idle" /\ qw = "idle" /\ qh = "idle"
  /\ aw = "idle" /\ ow = "idle" /\ dw = "idle"
  /\ hw = "idle"

DispatchStep(actions) ==
  /\ sw.current_step < MaxTicks
  /\ sw' = step([sw EXCEPT !.calls = <<>>, !.actions = actions, !.rng0 = sw.rng], actions)
  /\ UNCHANGED notStepVars

DispatchNext == \E actions \in [StepAgents -> ActionInputs] : DispatchStep(actions)

SpecDispatch == DispatchInit /\ [][DispatchNext]_vars

ValidAction(action_idx) == action_idx >= 0 /\ action_idx < Len(action_handlers)

PriorityOf(action_idx) == action_handlers[action_idx + 1].priority

\* the position of the agent in the shuffle of the step
ShufflePosition(W, agent) ==
  CHOOSE k \in 1..Cardinality(StepAgents) : shuffle(<<1, 2>>, W.rng0)[k] = agent

\* C34: in one step every agent with a valid action id has its handler
\* invoked once, with that action, and an agent without one never; a call of
\* higher priority comes before every call of lower priority, and calls of
\* one priority come in the order of the step's shuffle of the agents.
C34_OncePerAgentByPriorityThenShuffle ==
  sw.current_step > 0 =>
    /\ \A a \in StepAgents :
         Cardinality({k \in 1..Len(sw.calls) : sw.calls[k][1] = a})
           = (IF ValidAction(sw.actions[a]) THEN 1 ELSE 0)
    /\ \A k \in 1..Len(sw.calls) : sw.calls[k][2] = sw.actions[sw.calls[k][1]]
    /\ \A j, k \in 1..Len(sw.calls) :
         j < k =>
           /\ PriorityOf(sw.calls[j][2]) >= PriorityOf(sw.calls[k][2])
           /\ PriorityOf(sw.calls[j][2]) = PriorityOf(sw.calls[k][2])
                => ShufflePosition(sw, sw.calls[j][1]) < ShufflePosition(sw, sw.calls[k][1])

\* a step whose shuffle put the first agent first and in which the second
\* agent's action of higher priority was invoked before the first agent's
C34_Witness ==
  /\ sw.current_step > 0
  /\ shuffle(<<1, 2>>, sw.rng0) = <<1, 2>>
  /\ Len(sw.calls) = 2
  /\ sw.calls[1][1] = 2 /\ sw.calls[2][1] = 1
  /\ PriorityOf(sw.calls[1][2]) > PriorityOf(sw.calls[2][2])

\* a step whose shuffle put the second agent first, with two actions of one
\* priority
ShuffleOrderFollowed ==
  /\ sw.current_step > 0
  /\ shuffle(<<1, 2>>, sw.rng0) = <<2, 1>>
  /\ Len(sw.calls) = 2
  /\ sw.calls[1][1] = 2
  /\ PriorityOf(sw.calls[1][2]) = PriorityOf(sw.calls[2][2])

(***************************************************************************)
(* Events and the EventScheduler.  Three events stand in the configuration *)
(* map under the names 1 < 2 < 3; each names its fallback (0 = none) and   *)
(* the timesteps at which it is due.  The scheduler is built from the map, *)
(* process_timestep is called once per step with the step count, and       *)
(* Event::execute may be called on an event directly.  runs is the list of *)
(* the passes made over an event's targets, each with the step, the entry  *)
(* of the schedule that caused it (0 = none), the event, the number of     *)
(* targets it was applied to and what called it.                           *)
(***************************************************************************)
EvMaxStep == 3

MaxEntries == 3

EventNames == 1..3

TimestepLists == {<<>>, <<2>>, <<0, 2>>, <<2, 1>>}

EventConfig(name, target_tag_id, filters, mutations, max_targets, fallback) ==
  [name |-> name, target_tag_id |-> target_tag_id, filters |-> filters,
   mutations |-> mutations, max_targets |-> max_targets, fallback |-> fallback]

\* event 1 gives a resource to the holders of tag 0 that also hold tag 1,
\* event 2 gives tag 0 to the holders of tag 1, event 3 takes a resource
\* from the holders of tag 0
event_configs(max_targets) ==
  << EventConfig(1, 0, << TagFilter("target", 1) >>, << DeltaMut("target", 0, 1) >>,
                 max_targets, 2),
     EventConfig(2, 1, <<>>, << AddTagMut("target", 0) >>, 0, 3),
     EventConfig(3, 0, <<>>, << DeltaMut("target", 0, -1) >>, max_targets, 0) >>

\* the loop of the constructor over the map and each event's timesteps
RECURSIVE emplace_timesteps(_, _, _)
emplace_timesteps(timesteps, name, i) ==
  IF i > Len(timesteps[name]) THEN <<>>
  ELSE << [timestep |-> timesteps[name][i], event |-> name] >>
         \o emplace_timesteps(timesteps, name, i + 1)

RECURSIVE emplace_events(_, _)
emplace_events(timesteps, name) ==
  IF name > Len(timesteps) THEN <<>>
  ELSE emplace_timesteps(timesteps, name, 1) \o emplace_events(timesteps, name + 1)

\* std::sort with a comparison of the timesteps alone: any order of the
\* entries in which the timesteps do not decrease
std_sort(inserted) ==
  {p \in [1..Len(inserted) -> 1..Len(inserted)] :
     /\ \A i, j \in 1..Len(inserted) : i # j => p[i] # p[j]
     /\ \A i, j \in 1..Len(inserted) :
          i < j => inserted[p[i]].timestep <= inserted[p[j]].timestep}

\* Event::check_filters
Event_check_filters(W, e, target_ctx) ==
  \A i \in 1..Len(e.filters) : passes(W, e.filters[i], target_ctx)

\* Event::try_apply: the world after the call and the value returned
Event_try_apply(W, e, target) ==
  LET target_ctx == HandlerCtx(target, target)
  IN  IF ~Event_check_filters(W, e, target_ctx) THEN [W |-> W, ret |-> FALSE]
      ELSE [W |-> ApplyMutations(W, e.mutations, 1, target_ctx), ret |-> TRUE]

\* the loop over the targets, up to max_targets applications
RECURSIVE apply_to_targets(_, _, _, _, _)
apply_to_targets(W, e, targets, i, targets_applied) ==
  IF i > Len(targets) \/ (e.max_targets > 0 /\ targets_applied >= e.max_targets)
  THEN [W |-> W, targets_applied |-> targets_applied]
  ELSE LET r == Event_try_apply(W, e, targets[i])
       IN  apply_to_targets(r.W, e, targets, i + 1,
                            IF r.ret THEN targets_applied + 1 ELSE targets_applied)

\* the targets of an event by its tag, shuffled when the limit is below
\* their number, and then the loop over them
apply_event(W, e) ==
  LET objects == get_objects_with_tag(W, e.target_tag_id)
      limited == e.max_targets > 0 /\ Len(objects) > e.max_targets
      targets == IF limited THEN shuffle(objects, W.rng) ELSE objects
  IN  apply_to_targets([W EXCEPT !.rng = IF limited THEN rng_after_shuffle(objects, @) ELSE @],
                       e, targets, 1, 0)

Ran(W, entry, e, targets_applied, via) ==
  [W EXCEPT !.runs = Append(@, [step |-> W.current_step, entry |-> entry, event |-> e.name,
                                targets_applied |-> targets_applied, via |-> via])]

\* Event::execute
RECURSIVE Event_execute(_, _, _)
Event_execute(W, e, via) ==
  LET r == apply_event(W, e)
      W1 == Ran(r.W, 0, e, r.targets_applied, via)
  IN  IF r.targets_applied = 0 /\ e.fallback # 0
      THEN Event_execute(W1, W.events[e.fallback], "fallback")
      ELSE W1

\* variant of process_timestep that stops before the entries due at the
\* timestep itself
RECURSIVE process_timestep_before(_, _)
process_timestep_before(W, timestep) ==
  IF W.next_idx <= Len(W.schedule) /\ W.inserted[W.schedule[W.next_idx]].timestep < timestep
  THEN LET entry == W.schedule[W.next_idx]
           e == W.events[W.inserted[entry].event]
           r == apply_event(W, e)
       IN  process_timestep_before(
             [Ran(r.W, entry, e, r.targets_applied, "schedule") EXCEPT !.next_idx = @ + 1],
             timestep)
  ELSE W

\* EventScheduler::process_timestep
RECURSIVE process_timestep(_, _)
process_timestep(W, timestep) ==
  IF W.next_idx <= Len(W.schedule) /\ W.inserted[W.schedule[W.next_idx]].timestep <= timestep
  THEN LET entry == W.schedule[W.next_idx]
           e == W.events[W.inserted[entry].event]
           r == apply_event(W, e)
       IN  process_timestep(
             [Ran(r.W, entry, e, r.targets_applied, "schedule") EXCEPT !.next_idx = @ + 1],
             timestep)
  ELSE W

\* the tag bits the objects may start with
EventBits ==
  { [o \in HObjs |-> {}],
    [o \in HObjs |-> IF o = 1 THEN {0} ELSE {}],
    [o \in HObjs |-> IF o = 1 THEN {0, 1} ELSE {0}],
    [o \in HObjs |-> {0, 1}] }

EventWorld0(b, max_targets, inserted, schedule) ==
  [bits |-> b,
   objects |-> [t \in HTags |-> HolderList(b, t)],
   counts |-> [t \in HTags |-> Len(HolderList(b, t))],
   inv |-> [o \in HObjs |-> [item \in {0} |-> 1]],
   limits |-> [item \in {0} |-> InvLimit],
   fired |-> <<>>,
   hcfg |-> "aoe",
   rng |-> 0,
   events |-> event_configs(max_targets),
   inserted |-> inserted,
   schedule |-> schedule,
   next_idx |-> 1,
   current_step |-> 0,
   executed |-> FALSE,
   runs |-> <<>>]

\* the EventScheduler constructor
EventInit ==
  /\ \E b \in EventBits, max_targets \in {0, 1}, timesteps \in [EventNames -> TimestepLists] :
       /\ Len(emplace_events(timesteps, 1)) <= MaxEntries
       /\ \E schedule \in std_sort(emplace_events(timesteps, 1)) :
            hw = EventWorld0(b, max_targets, emplace_events(timesteps, 1), schedule)
  /\ tw = "idle" /\ th = "idle" /\ qw = "idle" /\ qh = "idle"
  /\ aw = "idle" /\ sw = "idle" /\ ow = "idle" /\ dw = "idle"

\* the events of MettaGrid::_step
EventStep ==
  /\ hw.current_step < EvMaxStep
  /\ hw' = process_timestep([hw EXCEPT !.current_step = @ + 1], hw.current_step + 1)
  /\ UNCHANGED notHandlerVars

\* event->execute(ctx), once in an episode
EventExecute(name) ==
  /\ ~hw.executed
  /\ hw' = Event_execute([hw EXCEPT !.executed = TRUE], hw.events[name], "execute")
  /\ UNCHANGED notHandlerVars

EventNext ==
  \/ EventStep
  \/ \E name \in EventNames : EventExecute(name)

SpecEvent == EventInit /\ [][EventNext]_vars

\* the positions of runs made for entries of the schedule
Scheduled(W) == {k \in 1..Len(W.runs) : W.runs[k].via = "schedule"}

\* C35 as stated: of two entries of the schedule with the same timestep, the
\* one inserted first is executed first.
C35_SameTimestepInInsertionOrder ==
  \A j, k \in Scheduled(hw) :
    (/\ hw.inserted[hw.runs[j].entry].timestep = hw.inserted[hw.runs[k].entry].timestep
     /\ hw.runs[j].entry < hw.runs[k].entry) => j < k

\* what the scheduler keeps: the entries are executed in the order std::sort
\* left them in
ExecutedInScheduleOrder ==
  \A k \in Scheduled(hw) :
    hw.runs[k].entry = hw.schedule[Cardinality({j \in Scheduled(hw) : j <= k})]

\* two events due at timestep 2 were executed against their insertion order
TieReordered ==
  \E j, k \in Scheduled(hw) :
    /\ j < k
    /\ hw.inserted[hw.runs[j].entry].timestep = 2
    /\ hw.inserted[hw.runs[k].entry].timestep = 2
    /\ hw.runs[j].entry > hw.runs[k].entry
    /\ hw.runs[j].event # hw.runs[k].event

\* whether the run after position k is the fallback of the event of run k
FallbackFollows(W, k) ==
  /\ k < Len(W.runs)
  /\ W.runs[k + 1].via = "fallback"
  /\ W.runs[k + 1].event = W.events[W.runs[k].event].fallback
  /\ W.runs[k + 1].step = W.runs[k].step

\* a run is followed by the run of its event's fallback exactly when it was
\* applied to no target and the event has a fallback
FallbackRule(W, k) ==
  FallbackFollows(W, k)
    <=> (W.runs[k].targets_applied = 0 /\ W.events[W.runs[k].event].fallback # 0)

\* C36 as stated: a scheduled event that was applied to no target is followed
\* by the execution of its fallback, if it has one, and so on along the
\* chain of fallbacks; an event applied to a target is not.
C36_FallbackWhenNoTargetPasses ==
  \A k \in 1..Len(hw.runs) :
    hw.runs[k].via \in {"schedule", "fallback"} => FallbackRule(hw, k)

\* what Event::execute does when it is called: the rule holds along the
\* chain that starts at the call
ExecuteFollowsFallbackChain ==
  \A k \in 1..Len(hw.runs) :
    hw.runs[k].via \in {"execute", "fallback"} => FallbackRule(hw, k)

\* process_timestep never runs a fallback
SchedulerRunsNoFallback ==
  \A k \in 1..Len(hw.runs) :
    hw.runs[k].via = "schedule" => ~FallbackFollows(hw, k)

\* a direct execute that went down the whole chain: no holder of both tags,
\* no holder of tag 1, and the third event applied
ChainExecuted ==
  /\ Len(hw.runs) >= 3
  /\ \E k \in 1..(Len(hw.runs) - 2) :
       /\ hw.runs[k].via = "execute" /\ hw.runs[k].event = 1
       /\ hw.runs[k + 1].via = "fallback" /\ hw.runs[k + 1].event = 2
       /\ hw.runs[k + 2].via = "fallback" /\ hw.runs[k + 2].event = 3
       /\ hw.runs[k + 2].targets_applied > 0

\* a scheduled event with a fallback had candidates, none of which passed its
\* filter, and the step ended without a run of the fallback
FallbackSkipped ==
  /\ hw.runs # <<>>
  /\ LET last == hw.runs[Len(hw.runs)]
     IN  /\ last.via = "schedule"
         /\ last.event = 1
         /\ last.targets_applied = 0
         /\ hw.objects[0] # <<>>

\* the number of runs made for an entry of the schedule
RunsOf(W, entry) ==
  Cardinality({k \in Scheduled(W) : W.runs[k].entry = entry})

\* C37: with process_timestep called once per step, an entry of the schedule
\* has been processed once as soon as a step has been made and the step
\* count has reached its timestep, and not at all before; it was processed at the first step that
\* reached its timestep, and the entries are processed in non-decreasing
\* order of their timesteps.
C37_EachEntryOnceWhenDue ==
  /\ \A entry \in 1..Len(hw.inserted) :
       RunsOf(hw, entry)
         = (IF hw.current_step >= 1 /\ hw.inserted[entry].timestep <= hw.current_step
            THEN 1 ELSE 0)
  /\ \A k \in Scheduled(hw) :
       hw.runs[k].step = Max2(1, hw.inserted[hw.runs[k].entry].timestep)
  /\ \A j, k \in Scheduled(hw) :
       j < k => hw.inserted[hw.runs[j].entry].timestep
                  <= hw.inserted[hw.runs[k].entry].timestep

\* an episode at its last step: an entry of timestep 0 was processed at step
\* 1, entries were processed at step 2, and the entry inserted last was not
\* the one processed last
C37_Witness ==
  /\ hw.current_step = EvMaxStep
  /\ Cardinality(Scheduled(hw)) = MaxEntries
  /\ \E k \in Scheduled(hw) :
       hw.inserted[hw.runs[k].entry].timestep = 0 /\ hw.runs[k].step = 1
  /\ \E k \in Scheduled(hw) : hw.runs[k].step = 2
  /\ \E j, k \in Scheduled(hw) : j < k /\ hw.runs[j].entry > hw.runs[k].entry

(***************************************************************************)
(* RewardHelper with its float arithmetic.  A float is modelled as an      *)
(* integer with MantissaBits significant bits, the result of an operation  *)
(* rounded to the nearest such number, ties to the even mantissa.  One     *)
(* agent has two reward entries that read the same stat with weights 3 and *)
(* 1; the stat takes any value from 0 to StatMax at every tick.  contrib   *)
(* is what each entry added to total_delta in the last tick, was its       *)
(* prev_value before that tick, and sum the exact sum of its contributions *)
(* since the start.                                                        *)
(***************************************************************************)
MantissaBits == 3

StatMax == 5

RewardTicks == 3

RewardEntries == {1, 2}

RECURSIVE Pow2(_)
Pow2(n) == IF n = 0 THEN 1 ELSE 2 * Pow2(n - 1)

\* the spacing of the floats around a magnitude
RECURSIVE ulp(_, _)
ulp(a, q) == IF a < Pow2(MantissaBits) * q THEN q ELSE ulp(a, 2 * q)

\* round to nearest, ties to even
fl(x) ==
  LET a == Abs(x)
      q == ulp(a, 1)
      lo == (a \div q) * q
      r == a - lo
      n == IF 2 * r < q THEN lo
           ELSE IF 2 * r > q THEN lo + q
           ELSE IF (lo \div q) % 2 = 0 THEN lo ELSE lo + q
  IN  IF x < 0 THEN 0 - n ELSE n

\* the value of an entry for the stat it reads
entry_value(entry, stat) ==
  LET val == fl(stat * entry.weight)
  IN  IF entry.has_max THEN Min2(val, entry.max_value) ELSE val

\* variant of the loop that never stores prev_value
RECURSIVE reward_entries_forget_prev(_, _, _)
reward_entries_forget_prev(W, k, total_delta) ==
  IF k > Len(W.entries) THEN [W |-> W, total_delta |-> total_delta]
  ELSE LET entry == W.entries[k]
           val == entry_value(entry, W.stat)
           term == IF entry.accumulate THEN val ELSE fl(val - entry.prev_value)
       IN  reward_entries_forget_prev(
             [W EXCEPT !.contrib[k] = term, !.was[k] = entry.prev_value],
             k + 1, fl(total_delta + term))

\* the loop of RewardHelper::compute_entries over _resolved_entries
RECURSIVE reward_entries(_, _, _)
reward_entries(W, k, total_delta) ==
  IF k > Len(W.entries) THEN [W |-> W, total_delta |-> total_delta]
  ELSE LET entry == W.entries[k]
           val == entry_value(entry, W.stat)
           term == IF entry.accumulate THEN val ELSE fl(val - entry.prev_value)
       IN  reward_entries(
             [W EXCEPT !.entries[k].prev_value = val,
                       !.contrib[k] = term, !.was[k] = entry.prev_value],
             k + 1, fl(total_delta + term))

\* RewardHelper::compute_entries
RewardHelper_compute_entries(W) ==
  IF W.entries = <<>> THEN W
  ELSE LET r == reward_entries(W, 1, 0)
       IN  IF r.total_delta # 0
           THEN [r.W EXCEPT !.reward = fl(@ + r.total_delta)]
           ELSE r.W

ResolvedEntry(weight, max_value, has_max, accumulate) ==
  [weight |-> weight, max_value |-> max_value, has_max |-> has_max,
   accumulate |-> accumulate, prev_value |-> 0]

RewardWorld0(has_max, accumulate) ==
  [entries |-> << ResolvedEntry(3, 14, has_max, accumulate[1]),
                  ResolvedEntry(1, 0, FALSE, accumulate[2]) >>,
   stat |-> 0,
   reward |-> 0,
   tick |-> 0,
   contrib |-> [k \in RewardEntries |-> 0],
   was |-> [k \in RewardEntries |-> 0],
   sum |-> [k \in RewardEntries |-> 0],
   exact |-> [k \in RewardEntries |-> TRUE]]

RewardInit ==
  /\ \E has_max \in BOOLEAN, accumulate \in [RewardEntries -> BOOLEAN] :
       sw = RewardWorld0(has_max, accumulate)
  /\ tw = "idle" /\ th = "idle" /\ qw = "idle" /\ qh = "idle"
  /\ aw = "idle" /\ ow = "idle" /\ dw = "idle"
  /\ hw = "idle"

\* one tick: the stat has its new value, the reward slot is reset and the
\* entries are computed
RewardTick(stat) ==
  /\ sw.tick < RewardTicks
  /\ sw' = LET W == RewardHelper_compute_entries(
                      [sw EXCEPT !.stat = stat, !.reward = 0, !.tick = @ + 1])
           IN  [W EXCEPT !.sum = [k \in RewardEntries |-> @[k] + W.contrib[k]],
                         !.exact = [k \in RewardEntries |->
                                      @[k] /\ W.contrib[k]
                                                = entry_value(W.entries[k], stat) - W.was[k]]]
  /\ UNCHANGED notStepVars

RewardNext == \E stat \in 0..StatMax : RewardTick(stat)

SpecReward == RewardInit /\ [][RewardNext]_vars

\* C38 as stated: the contribution of an entry that does not accumulate is
\* its value minus its value at the previous tick, so its contributions add
\* up to its value; the contribution of an entry that accumulates is its
\* value.
C38_DifferentialSumsToValue ==
  sw.tick > 0 =>
    \A k \in RewardEntries :
      LET value == entry_value(sw.entries[k], sw.stat)
      IN  IF sw.entries[k].accumulate THEN sw.contrib[k] = value
          ELSE /\ sw.contrib[k] = value - sw.was[k]
               /\ sw.sum[k] = value

\* C38 amended: the contribution of an entry that does not accumulate is the
\* float difference of its value and the prev_value stored at the previous
\* tick (0 before the first), and prev_value is then the value; its
\* contributions add up to its value as long as every one of those
\* differences was exact.  The contribution of an entry that accumulates is
\* its value.
C38_DifferentialSumsToValueWhenExact ==
  sw.tick > 0 =>
    \A k \in RewardEntries :
      LET value == entry_value(sw.entries[k], sw.stat)
      IN  /\ sw.entries[k].prev_value = value
          /\ IF sw.entries[k].accumulate THEN sw.contrib[k] = value
             ELSE /\ sw.contrib[k] = fl(value - sw.was[k])
                  /\ sw.exact[k] => sw.sum[k] = value

\* three ticks of an entry that does not accumulate, its value rising and
\* falling with every difference exact, and the contributions adding up to
\* the value
C38_Witness ==
  /\ sw.tick = 3
  /\ ~sw.entries[2].accumulate
  /\ sw.exact[2]
  /\ sw.contrib[2] < 0
  /\ sw.sum[2] = entry_value(sw.entries[2], sw.stat)
  /\ sw.sum[2] > 0

\* a tick in which the difference of two values was rounded: the
\* contributions no longer add up to the value
RoundedDifference ==
  /\ ~sw.entries[1].accumulate
  /\ ~sw.exact[1]
  /\ sw.sum[1] # entry_value(sw.entries[1], sw.stat)

\* an entry that accumulates contributed its full value twice
AccumulatedInFull ==
  /\ sw.tick >= 2
  /\ sw.entries[1].accumulate
  /\ sw.contrib[1] = entry_value(sw.entries[1], sw.stat)
  /\ sw.sum[1] > sw.contrib[1]
  /\ sw.contrib[1] > 0

(***************************************************************************)
(* The last-reward token.  The tick of the engine with its observation     *)
(* phase: the reward buffer is cleared, the actions run, the observations  *)
(* are written, and only then the reward entries are computed.  The world  *)
(* keeps, per agent, the value of the last-reward token of its row.        *)
(***************************************************************************)
\* the value of the LastReward global token: the reward buffer read when the
\* observation is built, times 100, cast to the token's byte
last_reward_token(W, agent_idx) == (W.rewards[agent_idx] * 100) % 256

\* MettaGrid::_compute_observations, the last-reward token of each row
token_compute_observations(W) ==
  [W EXCEPT !.last_reward = [i \in StepAgents |-> last_reward_token(W, i)]]

\* MettaGrid::_step with the observation phase between actions and rewards
token_step(W, actions) ==
  LET W1 == [W EXCEPT !.rewards = [i \in StepAgents |-> 0],
                      !.action_success = [i \in StepAgents |-> FALSE],
                      !.executed_actions = [i \in StepAgents |-> 0],
                      !.current_step = @ + 1]
      agent_indices == shuffle(<<1, 2>>, W1.rng)
      W2 == step_actions([W1 EXCEPT !.rng = rng_after_shuffle(<<1, 2>>, W1.rng)],
                         agent_indices, actions, 0, 1)
  IN  step_truncation(step_rewards(token_compute_observations(W2)))

\* construction ends with _init_buffers: buffers cleared, first observations
TokenInit ==
  /\ \E accumulate \in BOOLEAN, has_max \in BOOLEAN,
        max_steps \in {0, MaxTicks - 1}, episode_truncates \in BOOLEAN :
       sw = token_compute_observations(
              StepWorld0(accumulate, has_max, max_steps, episode_truncates)
                @@ [last_reward |-> [i \in StepAgents |-> 0]])
  /\ tw = "idle" /\ th = "idle" /\ qw = "idle" /\ qh = "idle"
  /\ aw = "idle" /\ ow = "idle" /\ dw = "idle"
  /\ hw = "idle"

TokenStep(actions) ==
  /\ sw.current_step < MaxTicks
  /\ sw' = token_step(sw, actions)
  /\ UNCHANGED notStepVars

TokenNext == \E actions \in [StepAgents -> ActionInputs] : TokenStep(actions)

SpecToken == TokenInit /\ [][TokenNext]_vars

\* C39 as stated: after a step, the last-reward token of each agent's
\* observation carries round(100 * r) for the reward r that the step
\* published for the agent in rewards[i].
C39_LastRewardTokenIsPublishedReward ==
  sw.current_step >= 1 =>
    \A i \in StepAgents : sw.last_reward[i] = (sw.rewards[i] * 100) % 256

\* what the tick does: the token is built from the buffer after it was cleared
\* and before the reward entries are added, so it carries 0
LastRewardTokenIsZero ==
  \A i \in StepAgents : sw.last_reward[i] = 0

\* a step published a reward of RewardWeight for agent 1 and its token is 0
TokenMissesReward ==
  /\ sw.current_step >= 1
  /\ sw.rewards[1] = RewardWeight
  /\ sw.last_reward[1] = 0

(***************************************************************************)
(* The two presence indices of the fixed sources: inside, from a source to *)
(* the targets in it, and target_fixed_inside, from a target to the fixed  *)
(* sources it is in.                                                       *)
(***************************************************************************)
\* the fixed sources that are not registered any more
UnregisteredFixed(W) == Range(FixedSources) \ Range(W.fixed_sources)

\* C40: after every tick's apply_fixed calls and after every
\* unregister_fixed, an agent is in inside[s] of a fixed source s exactly
\* when s is in the agent's target_fixed_inside, and no unregistered fixed
\* source has an agent in its inside set or is in an agent's
\* target_fixed_inside.
C40_FixedPresenceIndicesMatch ==
  /\ \A s \in Range(FixedSources), a \in Range(AoeAgents) :
       (a \in aw.inside[s]) <=> (s \in aw.target_fixed_inside[a])
  /\ \A s \in UnregisteredFixed(aw) :
       /\ aw.inside[s] = {}
       /\ \A a \in Range(AoeAgents) : s \notin aw.target_fixed_inside[a]

\* an object's fixed source with an agent inside it has just been
\* unregistered, and the agent is still inside another fixed source
C40_Witness ==
  /\ aw.last_op = "unregister"
  /\ \E s \in UnregisteredFixed(aw) :
       /\ aoe_config(aw, s).source = aw.last_removed
       /\ \E a \in aw.was_inside[s] :
            \E s2 \in Range(aw.fixed_sources) : a \in aw.inside[s2]

====
